---- MODULE Spec2Model ----
(***************************************************************************)
(* Model of the patch passes of twpatcher (src/src/games/mod.rs):          *)
(*   - prepare_sql_queries: the SQL patch pipeline (vanilla snapshot,      *)
(*     working store, script execution, re-extraction);                    *)
(*   - prepare_dev_ui: the dev-UI pass over the three archives.            *)
(* Strings are sequences of character codes, so that sorting by path,      *)
(* prefix matching and the low-priority rename are computed as the code    *)
(* computes them.                                                          *)
(***************************************************************************)
EXTENDS Integers, Sequences, FiniteSets, TLC

\* ------------------------------------------------------------------------
\* Bounds of the model (not program constants).
\* ------------------------------------------------------------------------
\* Longest caller-supplied script list (cli.sql_script).
MaxScripts == 2
\* Number of invocations of the pipeline in one behaviour.
MaxRuns == 2
\* Cell values are integers modulo ValMod.
ValMod == 3
\* Longest text (in tokens) of a ui file.
MaxText == 2
\* Most parameters a script is invoked with.
MaxParams == 2
\* Most lines of a load-order file.
MaxLines == 3
\* Most archives in the priority stack of the translation merge.
MaxPacks == 2
\* Most invocations of the pipeline at once.
MaxInvocations == 2

\* ------------------------------------------------------------------------
\* Characters and strings (a string is the sequence of its character codes).
\* ------------------------------------------------------------------------
\* '/', the separator of rename_file_name_to_low_priority.
ChSlash == 47
\* '~', the low-priority marker.
ChTilde == 126

\* "foo", "bar": the table names of the model.
StrFoo == <<102, 111, 111>>
StrBar == <<98, 97, 114>>
\* "data", "mod", "new": file names.
StrData == <<100, 97, 116, 97>>
StrMod == <<109, 111, 100>>
StrNew == <<110, 101, 119>>
\* "db/" and "_tables".
StrDb == <<100, 98, ChSlash>>
StrTables == <<95, 116, 97, 98, 108, 101, 115>>

\* Names of the archives (Pack::disk_file_name, RFile::container_name).
VanillaName == "data.pack"
ModName == "mod.pack"
ReservedName == "reserved.pack"
\* RFile::container_name() == None.
NoContainer == "none"

\* Rust's String ordering: bytewise lexicographic.
RECURSIVE StrLess(_, _)
StrLess(a, b) ==
    IF b = <<>> THEN FALSE
    ELSE IF a = <<>> THEN TRUE
    ELSE IF Head(a) # Head(b) THEN Head(a) < Head(b)
    ELSE StrLess(Tail(a), Tail(b))

\* str::starts_with.
StartsWith(s, p) ==
    /\ Len(p) <= Len(s)
    /\ SubSeq(s, 1, Len(p)) = p

\* str::split('/'): the components between the separators.
RECURSIVE Split(_, _)
Split(s, sep) ==
    IF \A i \in 1..Len(s) : s[i] # sep THEN <<s>>
    ELSE LET i == CHOOSE k \in 1..Len(s) :
                      /\ s[k] = sep
                      /\ \A j \in 1..(k - 1) : s[j] # sep
         IN <<SubSeq(s, 1, i - 1)>> \o Split(SubSeq(s, i + 1, Len(s)), sep)

\* [String]::join("/").
RECURSIVE Join(_, _)
Join(parts, sep) ==
    IF Len(parts) = 0 THEN <<>>
    ELSE IF Len(parts) = 1 THEN parts[1]
    ELSE parts[1] \o <<sep>> \o Join(Tail(parts), sep)

\* format!("db/{}_tables/", x)
AffectedPrefix(x) ==
    StrDb \o x \o StrTables \o <<ChSlash>>

\* format!("{table_name}_tables")
TablesName(table_name) ==
    table_name \o StrTables

\* format!("db/{table_name}_tables/{file_name}")
CreatedPath(table_name, file_name) ==
    AffectedPrefix(table_name) \o file_name

\* RFile::file_name(): the last component of the path.
FileName(path) ==
    LET parts == Split(path, ChSlash) IN parts[Len(parts)]

\* LowPriorityPath, were the marker put in front of the whole path.
LowPriorityWholePath(path) ==
    <<ChTilde>> \o path

\* rename_file_name_to_low_priority, on the path of the file.
LowPriorityPath(path) ==
    LET parts == Split(path, ChSlash)
        n == Len(parts)
    IN Join([i \in 1..n |-> IF i = n THEN <<ChTilde>> \o parts[i] ELSE parts[i]], ChSlash)


\* ------------------------------------------------------------------------
\* Files, archives and the inputs of the model.
\* ------------------------------------------------------------------------
\* An RFile holding a DB table: its path in the container, the archive it was
\* read from, the table name and the rows of the table. decodable and
\* projectable say whether RFile::decode and Table::db_to_sql succeed on it;
\* decoded is the in-memory state of the file.
RFile(path, container, table_name, rows, decodable, projectable) ==
    [path |-> path, container |-> container, table_name |-> table_name,
     rows |-> rows, decodable |-> decodable, projectable |-> projectable,
     decoded |-> FALSE]

\* The ways one table of the input can be broken.
BadKinds ==
    {"none", "vanilla_undecodable", "vanilla_unprojectable",
     "mod_undecodable", "mod_unprojectable"}

\* vanilla_pack.files_by_type(&[FileType::DB]): the base game's tables.
VanillaFiles(bad) ==
    {RFile(CreatedPath(StrFoo, StrData), VanillaName, TablesName(StrFoo), {0}, TRUE, TRUE),
     RFile(CreatedPath(StrBar, StrData), VanillaName, TablesName(StrBar), {1},
           bad # "vanilla_undecodable", bad # "vanilla_unprojectable")}

\* modded_pack.files_by_type(&[FileType::DB]): the tables of the mods.
ModdedFiles(bad) ==
    {RFile(CreatedPath(StrFoo, StrMod), ModName, TablesName(StrFoo), {2},
           bad # "mod_undecodable", bad # "mod_unprojectable")}

\* reserved_pack.files_by_type(&[FileType::DB]): a table an earlier pass of
\* the launch process cloned from the base game and put in the override
\* archive.
ReservedFiles ==
    {RFile(CreatedPath(StrBar, StrData), VanillaName, TablesName(StrBar), {2}, TRUE, TRUE)}

\* The base tables of an older version of the game, from which a snapshot
\* left on disk by an earlier launch was built.
OldVanillaFiles ==
    {RFile(CreatedPath(StrFoo, StrData), VanillaName, TablesName(StrFoo), {1}, TRUE, TRUE),
     RFile(CreatedPath(StrBar, <<111, 108, 100>>), VanillaName, TablesName(StrBar), {0}, TRUE, TRUE)}

\* Pack::insert: the file replaces any file of the pack at the same path.
PackInsert(pack, file) ==
    {f \in pack : f.path # file.path} \cup {file}

\* ------------------------------------------------------------------------
\* The relational store (an sqlite database file).
\* ------------------------------------------------------------------------
\* No file at the path of the snapshot.
NoFile == [exists |-> FALSE, store |-> [tables |-> {}, rows |-> {}], modified |-> 0]

EmptyStore == [tables |-> {}, rows |-> {}]

\* ClearStore, were the store left as it is.
ClearNothing(store) == store

\* PRAGMA writable_schema; delete from sqlite_master ...; VACUUM.
ClearStore(store) == EmptyStore

\* Table::db_to_sql(pool, container_name, file_name, is_vanilla): creates the
\* table if it is not there, and inserts the rows under (pack_name, file_name).
DbToSql(store, file) ==
    [tables |-> store.tables \cup {file.table_name},
     rows |-> store.rows \cup
              {[tbl |-> file.table_name, pack |-> file.container,
                file |-> FileName(file.path), val |-> v] : v \in file.rows}]

\* DB::sql_to_db(pool, container_name, file_name) succeeds when the table is
\* in the store ...
SqlToDbOk(store, table_name) == table_name \in store.tables

\* ... and then yields the rows stored under (pack_name, file_name).
SqlToDb(store, table_name, container_name, file_name) ==
    {r.val : r \in {x \in store.rows : /\ x.tbl = table_name
                                       /\ x.pack = container_name
                                       /\ x.file = file_name}}


\* ------------------------------------------------------------------------
\* Patch scripts (SQLScript): declared metadata and a SQL template.
\* ------------------------------------------------------------------------
\* A value of the template: a literal, or the token of a parameter key.
Lit(n) == [kind |-> "lit", key |-> "", lit |-> n]
Param(key) == [kind |-> "param", key |-> key, lit |-> 0]

\* The statements of the templates of the model:
\*   INSERT INTO <tbl> (pack_name, file_name, val) VALUES (<pack token>, <file>, <val>);
\*   UPDATE <tbl> SET val = (val + <val>) % ValMod;
\*   a statement the store rejects.
InsertStmt(tbl, file, val) ==
    [stmt |-> "insert", tbl |-> tbl, pack |-> "{pack_name}", file |-> file, val |-> val]
UpdateStmt(tbl, val) ==
    [stmt |-> "update", tbl |-> tbl, pack |-> "", file |-> <<>>, val |-> val]
BadStmt ==
    [stmt |-> "bad", tbl |-> <<>>, pack |-> "", file |-> <<>>, val |-> Lit(0)]

\* What SQLScript::from_path yields for the script files of the model.
\* parse_ok = FALSE: from_path returns an error.
ScriptCreate ==
    [parse_ok |-> TRUE,
     tables_affected |-> <<StrFoo>>,
     tables_created |-> << <<StrFoo, StrNew>> >>,
     parameters |-> <<>>,
     body |-> <<InsertStmt(TablesName(StrFoo), StrNew, Lit(0)),
                InsertStmt(TablesName(StrFoo), StrNew, Lit(1))>>]
ScriptUpdate ==
    [parse_ok |-> TRUE,
     tables_affected |-> <<StrFoo>>,
     tables_created |-> <<>>,
     parameters |-> <<[key |-> "mult", default_value |-> 1]>>,
     body |-> <<UpdateStmt(TablesName(StrFoo), Param("mult"))>>]
ScriptPartial ==
    [parse_ok |-> TRUE,
     tables_affected |-> <<StrBar>>,
     tables_created |-> <<>>,
     parameters |-> <<>>,
     body |-> <<UpdateStmt(TablesName(StrBar), Lit(1)), BadStmt>>]
ScriptBroken ==
    [parse_ok |-> FALSE,
     tables_affected |-> <<>>,
     tables_created |-> <<>>,
     parameters |-> <<>>,
     body |-> <<>>]

\* The entries (path, params) the caller can pass in cli.sql_script.
ScriptArgs ==
    {[script |-> ScriptCreate, params |-> <<>>],
     [script |-> ScriptUpdate, params |-> <<>>],
     [script |-> ScriptUpdate, params |-> <<2>>],
     [script |-> ScriptPartial, params |-> <<>>],
     [script |-> ScriptBroken, params |-> <<>>]}

\* HashMap::insert.
MapInsert(map, key, value) ==
    [k \in DOMAIN map \cup {key} |-> IF k = key THEN value ELSE map[k]]

\* BindFrom, were the supplied parameters never looked at.
RECURSIVE BindDefaultsFrom(_, _, _, _)
BindDefaultsFrom(parameters, params, index, map) ==
    IF index > Len(parameters) THEN map
    ELSE BindDefaultsFrom(parameters, params, index + 1,
                          MapInsert(map, parameters[index].key,
                                    parameters[index].default_value))

\* The loop over script.metadata().parameters().iter().enumerate(), from
\* index on: the supplied positional parameter, or the declared default.
RECURSIVE BindFrom(_, _, _, _)
BindFrom(parameters, params, index, param_values) ==
    IF index > Len(parameters) THEN param_values
    ELSE LET param == parameters[index]
             value == IF index <= Len(params) THEN params[index]
                      ELSE param.default_value
         IN BindFrom(parameters, params, index + 1,
                     MapInsert(param_values, param.key, value))

\* param_values after the loop.
ParamValues(parameters, params) ==
    BindFrom(parameters, params, 1, <<>>)

\* SQLScript::prepare(param_values, pack_name): the template with the
\* parameter tokens and the archive-name token substituted.
PrepareValue(val, param_values) ==
    IF val.kind = "param" /\ val.key \in DOMAIN param_values
    THEN Lit(param_values[val.key])
    ELSE val
Prepare(body, param_values, pack_name) ==
    [i \in 1..Len(body) |->
        [body[i] EXCEPT !.val = PrepareValue(body[i].val, param_values),
                        !.pack = IF body[i].pack = "{pack_name}" THEN pack_name
                                 ELSE body[i].pack]]

\* One statement of a batch: whether the store accepts it, and its effect.
StmtOk(store, st) ==
    /\ st.stmt \in {"insert", "update"}
    /\ st.tbl \in store.tables
    /\ st.val.kind = "lit"
StmtApply(store, st) ==
    IF st.stmt = "insert"
    THEN [store EXCEPT !.rows = @ \cup
            {[tbl |-> st.tbl, pack |-> st.pack, file |-> st.file, val |-> st.val.lit]}]
    ELSE [store EXCEPT !.rows =
            {IF r.tbl = st.tbl THEN [r EXCEPT !.val = (r.val + st.val.lit) % ValMod]
             ELSE r : r \in @}]

\* Connection::execute_batch: the statements run in order and the batch stops
\* at the first one that fails; what ran before it stays in the store.
RECURSIVE ExecuteBatch(_, _)
ExecuteBatch(store, query) ==
    IF query = <<>> THEN [store |-> store, ok |-> TRUE]
    ELSE IF ~StmtOk(store, Head(query)) THEN [store |-> store, ok |-> FALSE]
    ELSE ExecuteBatch(StmtApply(store, Head(query)), Tail(query))


\* ------------------------------------------------------------------------
\* Collecting and sorting files.
\* ------------------------------------------------------------------------
\* Pack::files_by_type: the files of a pack as a list. A pack holds one file
\* per path, and every list is sorted by path before it is used, so the order
\* chosen here (by path) is as good as any.
RECURSIVE FilesOf(_)
FilesOf(pack) ==
    IF pack = {} THEN <<>>
    ELSE LET first == CHOOSE f \in pack : \A g \in pack : ~StrLess(g.path, f.path)
         IN <<first>> \o FilesOf(pack \ {first})

\* slice::sort_by_key: a stable sort. The indices of keys, ordered by key;
\* an index goes behind every index whose key is not greater than its own.
RECURSIVE InsertSorted(_, _, _)
InsertSorted(sorted, i, keys) ==
    IF sorted = <<>> THEN <<i>>
    ELSE IF StrLess(keys[i], keys[Head(sorted)]) THEN <<i>> \o sorted
    ELSE <<Head(sorted)>> \o InsertSorted(Tail(sorted), i, keys)

RECURSIVE SortedIndices(_, _)
SortedIndices(n, keys) ==
    IF n = 0 THEN <<>>
    ELSE InsertSorted(SortedIndices(n - 1, keys), n, keys)

\* list.sort_by_key(|x| keys[x]), with keys[i] the key of list[i].
SortByKey(list, keys) ==
    LET order == SortedIndices(Len(list), keys)
    IN [i \in 1..Len(list) |-> list[order[i]]]

\* rename_file_name_to_low_priority(file).
RenameFileNameToLowPriority(file) ==
    [file EXCEPT !.path = LowPriorityPath(file.path)]

\* Lines 241-264 of prepare_sql_queries: the tables of the three archives,
\* the base ones renamed, sorted by path.
CollectTables(vanilla, modded, reserved) ==
    LET v == FilesOf(vanilla)
        m == FilesOf(modded)
        r == FilesOf(reserved)
        base == [i \in 1..Len(v) |->
                    [file |-> RenameFileNameToLowPriority(v[i]), is_vanilla |-> TRUE]]
        mods == [i \in 1..Len(m) |-> [file |-> m[i], is_vanilla |-> FALSE]]
        over == [i \in 1..Len(r) |-> [file |-> r[i], is_vanilla |-> FALSE]]
        all == base \o mods \o over
    IN SortByKey(all, [i \in 1..Len(all) |-> all[i].file.path])


\* ------------------------------------------------------------------------
\* State.
\* ------------------------------------------------------------------------
VARIABLES
    \* The three archives: base game, merged mods, override (reserved).
    vanilla_pack, modded_pack, reserved_pack,
    \* What the earlier passes of a launch leave in the override archive.
    override_in,
    \* The command line: cli.sql_script, cli.enable_dev_ui.
    cli,
    \* The disk: the game executable, the vanilla snapshot (db_path_bak), the
    \* working store (db_path), and the time.
    exe, db_bak, db, clock,
    \* Number of launches so far.
    runs,
    \* The position in the running pass and its result.
    pc, result,
    \* Locals of prepare_sql_queries.
    tables, idx, script_failed, edited_tables, new_tables, param_values, query,
    \* Local of prepare_dev_ui.
    files,
    \* What the running launch has done so far, and what earlier launches did
    \* (observations, read by no action).
    obs, past,
    \* load_order_from_file: the lines of the load-order file, the files on
    \* disk, and the locals working_paths and mod_paths.
    string, fs, working_paths, mod_paths,
    \* prepare_translations: the game (its format and its installed tables),
    \* the translation corpus, the priority stack, and the locals loc_data,
    \* keys_pre_opt and vanilla_english_loc.
    game, corpus, load_order, loc_data, keys_pre_opt, vanilla_english_loc,
    \* Several invocations of prepare_sql_queries for one game at once: the
    \* position and the locals of each, and the invocations that wrote in the
    \* working store file since it was last copied over.
    invocations, db_writers,
    \* main: its position, the pass of prepare_launch_options that runs, the
    \* override archive as saved on disk, and the contents of each save made
    \* (an observation, read by no action).
    main_pc, pass, saved_pack, saves

concurrent == <<invocations, db_writers>>
launcher == <<main_pc, pass, saved_pack, saves>>
resolver == <<string, fs, working_paths, mod_paths>>
translation == <<game, corpus, load_order, loc_data, keys_pre_opt, vanilla_english_loc>>
\* The state of the functions that are not running.
others == <<resolver, translation, concurrent, launcher>>
inputs == <<vanilla_pack, modded_pack, override_in, cli>>
disk == <<exe, db_bak, db, clock>>
locals == <<tables, idx, script_failed, edited_tables, new_tables, param_values, query>>
vars == <<vanilla_pack, modded_pack, reserved_pack, override_in, cli,
          exe, db_bak, db, clock, runs, pc, result,
          tables, idx, script_failed, edited_tables, new_tables, param_values, query,
          files, obs, past,
          string, fs, working_paths, mod_paths,
          game, corpus, load_order, loc_data, keys_pre_opt, vanilla_english_loc,
          invocations, db_writers, main_pc, pass, saved_pack, saves>>

\* The observations at the start of a launch.
NoObs ==
    [attempts |-> <<>>, decision |-> "none", snap0 |-> NoFile, clear_ok |-> TRUE,
     copied |-> EmptyStore, created |-> 0, pulls |-> <<>>, inserts |-> <<>>,
     before_opt |-> {}, after_opt |-> {}, opt |-> "none", swallowed |-> {}, exit |-> "none"]

\* Option<Vec<(PathBuf, Vec<String>)>>: the lists of at most MaxScripts entries.
ScriptLists(args) ==
    UNION {[1..n -> args] : n \in 1..MaxScripts}

\* The snapshot an earlier launch built from the tables of an older version
\* of the game, at time 1.
RECURSIVE ProjectAll(_, _)
ProjectAll(store, list) ==
    IF list = <<>> THEN store
    ELSE ProjectAll(DbToSql(store, RenameFileNameToLowPriority(Head(list))), Tail(list))

OldSnapshot ==
    [exists |-> TRUE, store |-> ProjectAll(EmptyStore, FilesOf(OldVanillaFiles)),
     modified |-> 1]

\* The executable: missing, older than the old snapshot, or newer.
ExeStates ==
    {[is_file |-> FALSE, created |-> 0],
     [is_file |-> TRUE, created |-> 0],
     [is_file |-> TRUE, created |-> 2]}

\* load_order_from_file is not running.
IdleResolver ==
    /\ string = <<>>
    /\ fs = {}
    /\ working_paths = <<>>
    /\ mod_paths = <<>>

\* Option::None, for vanilla_english_loc.
None == [some |-> FALSE]

\* prepare_translations is not running.
IdleTranslation ==
    /\ game = [use_old_multilanguage_logic |-> FALSE, locs |-> <<>>, old_loc |-> None]
    /\ corpus = [fixes |-> None, vanilla_english |-> None]
    /\ load_order = <<>>
    /\ loc_data = <<>>
    /\ keys_pre_opt = {}
    /\ vanilla_english_loc = None

\* main is not followed: the pass is looked at alone.
IdleMain ==
    /\ main_pc = "none"
    /\ pass = 0
    /\ saved_pack = {}
    /\ saves = <<>>

\* A single invocation runs.
IdleConcurrent ==
    /\ invocations = <<>>
    /\ db_writers = {}

\* The archives, the arguments and the files a launch finds, for the given
\* broken tables, script lists, contents of the override archive,
\* executables and snapshots.
LaunchWith(bads, lists, overrides, exes, snapshots) ==
    /\ \E bad \in bads :
        /\ vanilla_pack = VanillaFiles(bad)
        /\ modded_pack = ModdedFiles(bad)
    /\ override_in \in overrides
    /\ reserved_pack = override_in
    /\ \E list \in lists :
        cli = [sql_script |-> [some |-> list # <<>>, list |-> list],
               enable_dev_ui |-> FALSE,
               translation_language |-> None]
    /\ exe \in exes
    /\ db_bak \in snapshots
    /\ db = [exists |-> FALSE, store |-> EmptyStore]
    /\ clock = 2
    /\ runs = 1
    /\ pc = "start"
    /\ result = "none"
    /\ tables = <<>>
    /\ idx = 1
    /\ script_failed = FALSE
    /\ edited_tables = <<>>
    /\ new_tables = <<>>
    /\ param_values = <<>>
    /\ query = <<>>
    /\ files = <<>>
    /\ obs = NoObs
    /\ past = [rebuilt |-> <<>>, runs |-> <<>>]
    /\ IdleResolver
    /\ IdleTranslation

\* The states a single launch can start in.
InitWith(bads, lists, overrides, exes, snapshots) ==
    /\ LaunchWith(bads, lists, overrides, exes, snapshots)
    /\ IdleConcurrent
    /\ IdleMain

InitSql ==
    InitWith(BadKinds, ScriptLists(ScriptArgs) \cup {<<>>}, {{}, ReservedFiles},
             ExeStates, {NoFile, OldSnapshot})

\* ------------------------------------------------------------------------
\* prepare_sql_queries.
\* ------------------------------------------------------------------------
\* A `?` that fails, or the final return: the pass returns.
Return(res, exit) ==
    /\ pc' = "done"
    /\ result' = res
    /\ obs' = [obs EXCEPT !.exit = exit]

\* Line 232: no script was passed; the pass does nothing.
SkipSql ==
    /\ pc = "start"
    /\ ~cli.sql_script.some
    /\ Return("Ok", "skip")
    /\ UNCHANGED <<others, inputs, disk, locals, reserved_pack, runs, files, past>>

\* Collect, were the base tables renamed in the base archive and not on
\* clones.
CollectInPlace ==
    /\ pc = "start"
    /\ cli.sql_script.some
    /\ tables' = CollectTables(vanilla_pack, modded_pack, reserved_pack)
    /\ vanilla_pack' = {RenameFileNameToLowPriority(f) : f \in vanilla_pack}
    /\ script_failed' = FALSE
    /\ pc' = "check"
    /\ UNCHANGED <<others, modded_pack, override_in, cli, disk, reserved_pack, runs, result,
                   idx, edited_tables, new_tables, param_values, query, files, obs, past>>

\* Lines 241-264: collect the tables of the three archives.
Collect ==
    /\ pc = "start"
    /\ cli.sql_script.some
    /\ tables' = CollectTables(vanilla_pack, modded_pack, reserved_pack)
    /\ script_failed' = FALSE
    /\ pc' = "check"
    /\ UNCHANGED <<others, inputs, disk, reserved_pack, runs, result, idx, edited_tables,
                   new_tables, param_values, query, files, obs, past>>

\* NeedsRebuild, were the two times compared the other way round.
NeedsRebuildReversed(bak, e) ==
    \/ ~bak.exists
    \/ (e.is_file /\ e.created < bak.modified)

\* Line 280: the snapshot is rebuilt when it is not there, or when the
\* executable was created after the snapshot was last modified.
NeedsRebuild(bak, e) ==
    \/ ~bak.exists
    \/ (e.is_file /\ e.created > bak.modified)

\* Lines 274-280: create the folder and decide. io_ok = FALSE: creating the
\* folder or reading the metadata of the two files failed.
CheckSnapshot ==
    /\ pc = "check"
    /\ \E io_ok \in BOOLEAN :
        IF ~io_ok
        THEN /\ Return("Err", "io")
             /\ UNCHANGED idx
        ELSE /\ pc' = IF NeedsRebuild(db_bak, exe) THEN "reset" ELSE "reuse"
             /\ obs' = [obs EXCEPT
                          !.decision = IF NeedsRebuild(db_bak, exe) THEN "rebuild" ELSE "reuse",
                          !.snap0 = db_bak]
             /\ idx' = 1
             /\ UNCHANGED result
    /\ UNCHANGED <<others, inputs, disk, reserved_pack, runs, tables, script_failed,
                   edited_tables, new_tables, param_values, query, files, past>>

\* Lines 284-295: open the snapshot file (sqlite creates it when missing) and
\* clear every schema object. A failure of the clearing batch is logged and
\* sets script_failed; a failure to open the pool or get a connection returns.
ResetSnapshot ==
    /\ pc = "reset"
    /\ \E outcome \in {"ok", "clear_err", "pool_err"} :
        CASE outcome = "pool_err" ->
                /\ Return("Err", "pool")
                /\ UNCHANGED <<db_bak, script_failed>>
          [] outcome = "clear_err" ->
                /\ db_bak' = [exists |-> TRUE, store |-> db_bak.store,
                              modified |-> IF db_bak.exists THEN db_bak.modified ELSE clock]
                /\ script_failed' = TRUE
                /\ pc' = "build_vanilla"
                /\ obs' = [obs EXCEPT !.clear_ok = FALSE]
                /\ UNCHANGED result
          [] outcome = "ok" ->
                /\ db_bak' = [exists |-> TRUE, store |-> ClearStore(db_bak.store),
                              modified |-> clock]
                /\ pc' = "build_vanilla"
                /\ UNCHANGED <<script_failed, result, obs>>
    /\ UNCHANGED <<others, inputs, exe, db, clock, reserved_pack, runs, tables, idx,
                   edited_tables, new_tables, param_values, query, files, past>>

\* RFile::decode(&dec_extra_data, true, true) on entry i of the list: the
\* decoded table stays in the file when decoding succeeds.
Decode(list, i) ==
    IF list[i].file.decodable
    THEN [list EXCEPT ![i].file.decoded = TRUE]
    ELSE list

\* The body of the loops at lines 299-310 and 330-341 on entry i, for the
\* store it fills: a table that decodes is projected; a projection that
\* fails is logged and skipped.
Project(store, list, i) ==
    IF list[i].file.decodable /\ list[i].file.projectable
    THEN DbToSql(store, list[i].file)
    ELSE store

\* The loop at lines 299-310 (vanilla = TRUE) or 330-341 (vanilla = FALSE),
\* from entry i on: the tables of that kind, in list order.
RECURSIVE DecodeFrom(_, _, _)
DecodeFrom(list, i, vanilla) ==
    IF i > Len(list) THEN list
    ELSE DecodeFrom(IF list[i].is_vanilla = vanilla THEN Decode(list, i) ELSE list,
                    i + 1, vanilla)

\* ProjectFrom, were the tables of both kinds projected.
RECURSIVE ProjectFromAny(_, _, _, _)
ProjectFromAny(store, list, i, vanilla) ==
    IF i > Len(list) THEN store
    ELSE ProjectFromAny(Project(store, list, i), list, i + 1, vanilla)

RECURSIVE ProjectFrom(_, _, _, _)
ProjectFrom(store, list, i, vanilla) ==
    IF i > Len(list) THEN store
    ELSE ProjectFrom(IF list[i].is_vanilla = vanilla THEN Project(store, list, i) ELSE store,
                     list, i + 1, vanilla)

\* Lines 297-310: project the base tables into the snapshot.
BuildVanilla ==
    /\ pc = "build_vanilla"
    /\ tables' = DecodeFrom(tables, 1, TRUE)
    /\ LET store == ProjectFrom(db_bak.store, tables, 1, TRUE)
       IN /\ db_bak' = [db_bak EXCEPT !.store = store,
                                      !.modified = IF store = db_bak.store THEN @ ELSE clock]
          /\ past' = IF obs.clear_ok
                     THEN [past EXCEPT !.rebuilt =
                                Append(@, [from |-> obs.snap0.store, store |-> store])]
                     ELSE past
    /\ pc' = "copy"
    /\ UNCHANGED <<others, inputs, exe, db, clock, reserved_pack, runs, result, idx, script_failed,
                   edited_tables, new_tables, param_values, query, files, obs>>

\* ReuseSnapshot, were the base tables the snapshot lacks projected into it.
ReuseSnapshotRepairs ==
    /\ pc = "reuse"
    /\ tables' = DecodeFrom(tables, 1, TRUE)
    /\ db_bak' = [db_bak EXCEPT !.store = ProjectFrom(@, tables, 1, TRUE)]
    /\ pc' = "copy"
    /\ UNCHANGED <<others, inputs, exe, db, clock, reserved_pack, runs, result, idx, script_failed,
                   edited_tables, new_tables, param_values, query, files, obs, past>>

\* Lines 315-323: the snapshot is still valid; only decode the base tables.
ReuseSnapshot ==
    /\ pc = "reuse"
    /\ tables' = DecodeFrom(tables, 1, TRUE)
    /\ pc' = "copy"
    /\ UNCHANGED <<others, inputs, disk, reserved_pack, runs, result, idx, script_failed,
                   edited_tables, new_tables, param_values, query, files, obs, past>>

\* CopySnapshot, were a working store left by an earlier launch kept.
CopySnapshotIfMissing ==
    /\ pc = "copy"
    /\ \E io_ok \in BOOLEAN :
        IF ~io_ok
        THEN /\ Return("Err", "copy")
             /\ UNCHANGED <<db, idx>>
        ELSE /\ db' = IF db.exists THEN db ELSE [exists |-> TRUE, store |-> db_bak.store]
             /\ pc' = "build_modded"
             /\ idx' = 1
             /\ obs' = [obs EXCEPT !.copied = db_bak.store]
             /\ UNCHANGED result
    /\ UNCHANGED <<others, inputs, exe, db_bak, clock, reserved_pack, runs, tables,
                   script_failed, edited_tables, new_tables, param_values, query, files, past>>

\* Lines 325-327: copy the snapshot over the working store and open it.
\* io_ok = FALSE: std::fs::copy or Pool::new failed.
CopySnapshot ==
    /\ pc = "copy"
    /\ \E io_ok \in BOOLEAN :
        IF ~io_ok
        THEN /\ Return("Err", "copy")
             /\ UNCHANGED <<db, idx>>
        ELSE /\ db' = [exists |-> TRUE, store |-> db_bak.store]
             /\ pc' = "build_modded"
             /\ idx' = 1
             /\ obs' = [obs EXCEPT !.copied = db_bak.store]
             /\ UNCHANGED result
    /\ UNCHANGED <<others, inputs, exe, db_bak, clock, reserved_pack, runs, tables,
                   script_failed, edited_tables, new_tables, param_values, query, files, past>>

\* Lines 329-341: project the mod and override tables into the working store.
BuildModded ==
    /\ pc = "build_modded"
    /\ tables' = DecodeFrom(tables, 1, FALSE)
    /\ db' = [db EXCEPT !.store = ProjectFrom(@, tables, 1, FALSE)]
    /\ pc' = "scripts"
    /\ idx' = 1
    /\ UNCHANGED <<others, inputs, exe, db_bak, clock, reserved_pack, runs, result,
                   script_failed, edited_tables, new_tables, param_values, query, files, obs, past>>

\* The loop at line 349 goes on to the next script (or ends after the last).
NextScript(outcome) ==
    /\ idx' = idx + 1
    /\ pc' = IF idx = Len(cli.sql_script.list) THEN "new_tables" ELSE "scripts"
    /\ obs' = [obs EXCEPT !.attempts = Append(@, [i |-> idx, outcome |-> outcome])]
    /\ UNCHANGED result

\* Line 379, `pool.get()?` failing: the pass returns at once.
BorrowFailed ==
    /\ pc' = "done"
    /\ result' = "Err"
    /\ obs' = [obs EXCEPT !.attempts = Append(@, [i |-> idx, outcome |-> "borrow_err"]),
                          !.exit = "borrow"]
    /\ UNCHANGED idx

\* LoadFailed, were a script that fails to load to end the pass.
LoadFailedReturns ==
    /\ script_failed' = TRUE
    /\ pc' = "done"
    /\ result' = "Err"
    /\ obs' = [obs EXCEPT !.attempts = Append(@, [i |-> idx, outcome |-> "parse_err"]),
                          !.exit = "load"]
    /\ UNCHANGED <<idx, db, edited_tables, new_tables, param_values, query>>

\* Lines 385-388: SQLScript::from_path returned an error.
LoadFailed ==
    /\ script_failed' = TRUE
    /\ NextScript("parse_err")
    /\ UNCHANGED <<db, edited_tables, new_tables, param_values, query>>

\* Executed, were each batch run on a store of its own and its writes lost.
ExecutedApart(run) ==
    /\ db' = db
    /\ script_failed' = (script_failed \/ ~run.ok)
    /\ NextScript(IF run.ok THEN "ok" ELSE "exec_err")

\* Lines 379-383: the batch ran on the working store, to the end or not.
Executed(run) ==
    /\ db' = [db EXCEPT !.store = run.store]
    /\ script_failed' = (script_failed \/ ~run.ok)
    /\ NextScript(IF run.ok THEN "ok" ELSE "exec_err")

\* Lines 356-366: the prefixes and the created tables a script declares.
EditedOf(script) ==
    [i \in 1..Len(script.tables_affected) |-> AffectedPrefix(script.tables_affected[i])]
NewOf(script) ==
    [i \in 1..Len(script.tables_created) |->
        [path |-> CreatedPath(script.tables_created[i][1], script.tables_created[i][2]),
         table_name |-> TablesName(script.tables_created[i][1])]]


\* Lines 349-390: one turn of the loop over the scripts.
RunScript ==
    /\ pc = "scripts"
    /\ LET arg == cli.sql_script.list[idx]
       IN IF ~arg.script.parse_ok
          THEN LoadFailed
          ELSE /\ edited_tables' = edited_tables \o EditedOf(arg.script)
               /\ new_tables' = new_tables \o NewOf(arg.script)
               /\ param_values' = ParamValues(arg.script.parameters, arg.params)
               /\ query' = Prepare(arg.script.body, param_values', ReservedName)
               /\ \E borrow_ok \in BOOLEAN :
                    IF borrow_ok
                    THEN Executed(ExecuteBatch(db.store, query'))
                    ELSE /\ BorrowFailed
                         /\ UNCHANGED <<db, script_failed>>
    /\ UNCHANGED <<others, inputs, exe, db_bak, clock, reserved_pack, runs, tables, files, past>>

\* Lines 396-415: for each declared created table, an emptied clone of the
\* first decoded table of that name is pushed at the end of the list.
RECURSIVE PushNewTables(_, _)
PushNewTables(list, new) ==
    IF new = <<>> THEN list
    ELSE LET found == {i \in 1..Len(list) :
                          /\ list[i].file.decoded
                          /\ list[i].file.table_name = Head(new).table_name}
         IN IF found = {} THEN PushNewTables(list, Tail(new))
            ELSE LET first == CHOOSE i \in found : \A j \in found : i <= j
                     file == [list[first].file EXCEPT !.rows = {},
                                                      !.path = Head(new).path,
                                                      !.container = NoContainer]
                 IN PushNewTables(Append(list, [file |-> file, is_vanilla |-> FALSE]),
                                  Tail(new))

CreateNewTables ==
    /\ pc = "new_tables"
    /\ tables' = PushNewTables(tables, new_tables)
    /\ obs' = [obs EXCEPT !.created = Len(tables') - Len(tables)]
    /\ pc' = "retrieve"
    /\ idx' = 1
    /\ UNCHANGED <<others, inputs, disk, reserved_pack, runs, result, script_failed,
                   edited_tables, new_tables, param_values, query, files, past>>


\* Line 421, inside the loop at 419: some declared prefix starts the path.
IsEdited(path, edited) ==
    \E j \in 1..Len(edited) : StartsWith(path, edited[j])

\* EditedHits without the break of line 435: every prefix that starts the path.
RECURSIVE EditedHitsFrom(_, _, _)
EditedHitsFrom(path, edited, j) ==
    IF j > Len(edited) THEN <<>>
    ELSE (IF StartsWith(path, edited[j]) THEN <<j>> ELSE <<>>)
         \o EditedHitsFrom(path, edited, j + 1)
EditedHitsNoBreak(path, edited) ==
    EditedHitsFrom(path, edited, 1)

\* EditedHits, were nothing retrieved once a script has failed.
EditedHitsUnlessFailed(path, edited) ==
    IF script_failed \/ \A j \in 1..Len(edited) : ~StartsWith(path, edited[j]) THEN <<>>
    ELSE <<CHOOSE j \in 1..Len(edited) :
              /\ StartsWith(path, edited[j])
              /\ \A k \in 1..(j - 1) : ~StartsWith(path, edited[k])>>

\* Lines 419-437: the declared prefixes, by index, for which the body of the
\* inner loop runs on a path: the first one that starts the path, since line
\* 435 breaks out of the loop.
EditedHits(path, edited) ==
    LET m == {j \in 1..Len(edited) : StartsWith(path, edited[j])}
    IN IF m = {} THEN <<>>
       ELSE <<CHOOSE j \in m : \A k \in m : j <= k>>

\* Line 424: the archive name the rows of a file are stored under.
ContainerName(file) ==
    IF file.container = NoContainer THEN ReservedName ELSE file.container

\* Retrieved, were the rows left as they are once a script has failed.
RetrievedUnlessFailed(file) ==
    IF file.decoded /\ ~script_failed
    THEN [file EXCEPT !.rows = SqlToDb(db.store, file.table_name,
                                       IF file.container = NoContainer
                                       THEN ReservedName ELSE file.container,
                                       FileName(file.path))]
    ELSE file

\* Lines 427-428: the rows of a decoded table are replaced by those of the
\* working store; a file that is not decoded is left as it is (line 430).
Retrieved(file) ==
    IF file.decoded
    THEN [file EXCEPT !.rows = SqlToDb(db.store, file.table_name,
                                       ContainerName(file), FileName(file.path))]
    ELSE file

\* Lines 418-438: one turn of the loop over the tables. A table under a
\* declared prefix is pulled back, encoded and inserted in the override
\* archive; sql_to_db, encode and insert return from the pass when they fail.
Retrieve ==
    /\ pc = "retrieve"
    /\ IF idx <= Len(tables)
       THEN LET file == tables[idx].file
                hits == EditedHits(file.path, edited_tables)
            IN IF hits # <<>>
               THEN \E io_ok \in BOOLEAN :
                        IF (file.decoded /\ ~SqlToDbOk(db.store, file.table_name)) \/ ~io_ok
                        THEN /\ Return("Err", "retrieve")
                             /\ UNCHANGED <<tables, reserved_pack, idx>>
                        ELSE /\ tables' = [tables EXCEPT ![idx].file = Retrieved(file)]
                             /\ reserved_pack' = PackInsert(reserved_pack, Retrieved(file))
                             /\ obs' = [obs EXCEPT
                                          !.pulls = IF file.decoded
                                                    THEN @ \o [k \in 1..Len(hits) |-> idx]
                                                    ELSE @,
                                          !.inserts = @ \o [k \in 1..Len(hits) |->
                                                              [i |-> idx, prefix |-> hits[k]]]]
                             /\ idx' = idx + 1
                             /\ UNCHANGED <<pc, result>>
               ELSE /\ idx' = idx + 1
                    /\ UNCHANGED <<tables, reserved_pack, pc, result, obs>>
       ELSE /\ pc' = "finish"
            /\ UNCHANGED <<tables, reserved_pack, idx, result, obs>>
    /\ UNCHANGED <<others, inputs, disk, runs, script_failed, edited_tables, new_tables,
                   param_values, query, files, past>>

\* The files of the override archive under the declared prefixes.
Extracted ==
    {[path |-> f.path, rows |-> f.rows] :
        f \in {g \in reserved_pack : IsEdited(g.path, edited_tables)}}

\* Lines 440-448: the pass fails at the end when anything was recorded.
Finish ==
    /\ pc = "finish"
    /\ Return(IF script_failed THEN "Err" ELSE "Ok", "finish")
    /\ past' = [past EXCEPT !.runs = Append(@, [copied |-> obs.copied,
                                                 extracted |-> Extracted])]
    /\ UNCHANGED <<others, inputs, disk, locals, reserved_pack, runs, files>>

\* ------------------------------------------------------------------------
\* Between two launches.
\* ------------------------------------------------------------------------
Idle == pc = "done" /\ runs < MaxRuns

\* main: a new process with the same command line; the override archive is
\* built anew.
Launch ==
    /\ Idle
    /\ runs' = runs + 1
    /\ clock' = clock + 1
    /\ pc' = "start"
    /\ result' = "none"
    /\ reserved_pack' = override_in
    /\ tables' = <<>>
    /\ idx' = 1
    /\ script_failed' = FALSE
    /\ edited_tables' = <<>>
    /\ new_tables' = <<>>
    /\ param_values' = <<>>
    /\ query' = <<>>
    /\ obs' = NoObs
    /\ UNCHANGED <<others, inputs, exe, db_bak, db, files, past>>

\* The user deletes the snapshot file.
RemoveSnapshot ==
    /\ Idle
    /\ db_bak.exists
    /\ db_bak' = NoFile
    /\ UNCHANGED <<others, inputs, exe, db, clock, reserved_pack, runs, pc, result, locals,
                   files, obs, past>>

\* The game is updated: a new executable, the same tables.
UpdateGame ==
    /\ Idle
    /\ exe.created < clock
    /\ exe' = [is_file |-> TRUE, created |-> clock + 1]
    /\ clock' = clock + 1
    /\ UNCHANGED <<others, inputs, db_bak, db, reserved_pack, runs, pc, result, locals,
                   files, obs, past>>

\* ------------------------------------------------------------------------
\* Scripts with parameters.
\* ------------------------------------------------------------------------
\* The keys a script declares, each at most once.
ParamKeys == {"mult", "scale"}
Values == 0..(ValMod - 1)

\* The lists of declared parameters {key, default_value}.
DeclaredParams ==
    LET all == UNION {[1..n -> [key : ParamKeys, default_value : Values]] :
                        n \in 0..Cardinality(ParamKeys)}
    IN {d \in all : \A i, j \in 1..Len(d) : i # j => d[i].key # d[j].key}

\* The lists of supplied positional parameters.
SuppliedParams ==
    UNION {[1..n -> Values] : n \in 0..MaxParams}

\* A script that declares the given parameters; its template has one
\* statement per key, declared or not.
ScriptWithParams(declared) ==
    [parse_ok |-> TRUE,
     tables_affected |-> <<StrFoo>>,
     tables_created |-> <<>>,
     parameters |-> declared,
     body |-> <<UpdateStmt(TablesName(StrFoo), Param("mult")),
                UpdateStmt(TablesName(StrFoo), Param("scale"))>>]

NextSql ==
    \/ SkipSql
    \/ Collect
    \/ CheckSnapshot
    \/ ResetSnapshot
    \/ BuildVanilla
    \/ ReuseSnapshot
    \/ CopySnapshot
    \/ BuildModded
    \/ RunScript
    \/ CreateNewTables
    \/ Retrieve
    \/ Finish

\* One launch with any of the script lists.
Spec == InitSql /\ [][NextSql]_vars

\* Several launches on the same disk, with the scripts that succeed.
InitRelaunch ==
    InitWith({"none", "vanilla_unprojectable"},
             ScriptLists({a \in ScriptArgs : /\ a.script \in {ScriptCreate, ScriptUpdate}
                                             /\ a.params = <<>>}) \cup {<<>>},
             {{}, ReservedFiles}, ExeStates, {NoFile, OldSnapshot})

NextRelaunch ==
    \/ NextSql
    \/ Launch
    \/ RemoveSnapshot
    \/ UpdateGame

SpecRelaunch == InitRelaunch /\ [][NextRelaunch]_vars


\* ------------------------------------------------------------------------
\* Properties of prepare_sql_queries.
\* ------------------------------------------------------------------------
ScriptList == cli.sql_script.list

\* Number of times x occurs in a list.
Count(list, x) == Cardinality({k \in 1..Len(list) : list[k] = x})

\* Number of insertions of the i-th collected table in the override archive.
InsertsOf(i) == Cardinality({k \in 1..Len(obs.inserts) : obs.inserts[k].i = i})

\* The last script the loop has attempted.
LastAttempt == obs.attempts[Len(obs.attempts)]

\* The pass ran to its final return (lines 440-448), no `?` returned early.
RanToEnd == pc = "done" /\ obs.exit = "finish"

\* C1. A script that fails to load, or whose batch fails to execute, does
\* not stop the loop: the scripts are attempted in caller order, and after
\* such a failure of script k the loop is at script k + 1, or has already
\* attempted it.
FailedScriptDoesNotStopLoop ==
    \A k \in 1..Len(obs.attempts) :
        /\ obs.attempts[k].i = k
        /\ (obs.attempts[k].outcome \in {"parse_err", "exec_err"} /\ k < Len(ScriptList))
            => \/ Len(obs.attempts) > k
               \/ (pc = "scripts" /\ idx = k + 1)

\* A batch failed to execute, the next script failed to load, and the loop
\* went on after both.
FailedScriptsPassed ==
    /\ Len(obs.attempts) = 2
    /\ obs.attempts[1].outcome = "exec_err"
    /\ obs.attempts[2].outcome = "parse_err"
    /\ pc = "new_tables"

\* C2. Once the scripts have started, the pass returns only after every
\* script of the list has been attempted, whatever fails.
ReturnsOnlyAfterAllScripts ==
    (pc = "done" /\ obs.attempts # <<>>)
        => \A k \in 1..Len(ScriptList) : \E a \in 1..Len(obs.attempts) : obs.attempts[a].i = k

\* C3. Script 1 fails to load, script 2 succeeds and nothing else fails:
\* every collected (decoded) table under a prefix declared by script 2 has
\* been pulled back from the working store and is in the override archive
\* with the rows of the store, and the pass returns an error.
SecondScriptStillExtracted ==
    (/\ RanToEnd
     /\ Len(ScriptList) = 2
     /\ Len(obs.attempts) = 2
     /\ obs.attempts[1].outcome = "parse_err"
     /\ obs.attempts[2].outcome = "ok")
        => /\ result = "Err"
           /\ \A i \in 1..Len(tables) :
                (/\ tables[i].file.decoded
                 /\ \E j \in 1..Len(ScriptList[2].script.tables_affected) :
                        StartsWith(tables[i].file.path,
                                   AffectedPrefix(ScriptList[2].script.tables_affected[j])))
                    => /\ Count(obs.pulls, i) = 1
                       /\ \E f \in reserved_pack :
                            /\ f.path = tables[i].file.path
                            /\ f.rows = SqlToDb(db.store, f.table_name,
                                                ContainerName(f), FileName(f.path))

\* Script 1 failed to load, script 2 changed rows of a mod table, and the
\* changed rows are in the override archive.
SecondScriptExtractedSeen ==
    /\ RanToEnd
    /\ Len(obs.attempts) = 2
    /\ obs.attempts[1].outcome = "parse_err"
    /\ obs.attempts[2].outcome = "ok"
    /\ result = "Err"
    /\ \E f \in reserved_pack : \E g \in modded_pack :
        f.path = g.path /\ f.rows # g.rows /\ f.rows # {}

\* C4. The scripts run one after the other on the same working store: when
\* script 1 creates file "new" of table foo with rows 0 and 1 and script 2
\* adds mult to every row of foo, the re-extracted file holds both rows with
\* mult added.
LaterScriptSeesEarlierWrites ==
    (/\ RanToEnd
     /\ Len(ScriptList) = 2
     /\ ScriptList[1].script = ScriptCreate
     /\ ScriptList[2].script = ScriptUpdate
     /\ obs.attempts[1].outcome = "ok"
     /\ obs.attempts[2].outcome = "ok")
        => LET mult == IF ScriptList[2].params = <<>> THEN 1 ELSE ScriptList[2].params[1]
           IN \E f \in reserved_pack :
                /\ f.path = CreatedPath(StrFoo, StrNew)
                /\ f.rows = {(0 + mult) % ValMod, (1 + mult) % ValMod}

\* The created file is in the override archive with rows that script 1 did
\* not insert as such.
BothEditsSeen ==
    /\ RanToEnd
    /\ Len(ScriptList) = 2
    /\ ScriptList[1].script = ScriptCreate
    /\ ScriptList[2].script = ScriptUpdate
    /\ \E f \in reserved_pack :
        /\ f.path = CreatedPath(StrFoo, StrNew)
        /\ Cardinality(f.rows) = 2
        /\ f.rows # {0, 1}


\* C6. The snapshot is rebuilt exactly when, at the check, the snapshot file
\* is missing or the executable exists and was created after the snapshot
\* was last modified; otherwise the launch leaves the snapshot as it found it.
RebuiltIffMissingOrOutdated ==
    (pc # "done" /\ obs.decision # "none")
        => /\ (obs.decision = "rebuild")
                <=> \/ ~obs.snap0.exists
                    \/ (exe.is_file /\ exe.created > obs.snap0.modified)
           /\ pc \in {"reset", "build_vanilla"} => obs.decision = "rebuild"
           /\ pc = "reuse" => obs.decision = "reuse"
           /\ obs.decision = "reuse" => db_bak = obs.snap0

\* A snapshot that was there has been rebuilt, the executable being newer.
OutdatedSnapshotRebuilt ==
    /\ obs.decision = "rebuild"
    /\ obs.snap0.exists
    /\ pc = "copy"
    /\ db_bak.store # obs.snap0.store

RerunIsDeterministic ==
    /\ \A i, j \in 1..Len(past.runs) :
            past.runs[i].copied = past.runs[j].copied
                => past.runs[i].extracted = past.runs[j].extracted
    /\ pc = "build_modded" => db.store = db_bak.store

\* Two launches copied the same snapshot and extracted rows that the scripts
\* changed.
RerunSeen ==
    /\ Len(past.runs) = 2
    /\ past.runs[1].copied = past.runs[2].copied
    /\ \E x \in past.runs[2].extracted : \E g \in modded_pack :
            x.path = g.path /\ x.rows # g.rows /\ x.rows # {}


\* One launch with one script, for every way to declare and supply parameters.
InitBind ==
    InitWith({"none"},
             {<<>>} \cup {<<[script |-> ScriptWithParams(d), params |-> p]>> :
                            d \in DeclaredParams, p \in SuppliedParams},
             {{}}, {[is_file |-> FALSE, created |-> 0]}, {NoFile, OldSnapshot})

SpecBind == InitBind /\ [][NextSql]_vars

\* C5. After a script has been loaded, the value bound to the key of its
\* i-th declared parameter is the i-th supplied parameter if there is one,
\* and the declared default otherwise; and that value stands in the query
\* wherever the template has the token of the key.
ParamsBoundByPosition ==
    (obs.attempts # <<>> /\ LastAttempt.outcome # "parse_err")
        => LET arg == ScriptList[LastAttempt.i]
               body == arg.script.body
           IN \A i \in 1..Len(arg.script.parameters) :
                LET param == arg.script.parameters[i]
                    value == IF i <= Len(arg.params) THEN arg.params[i]
                             ELSE param.default_value
                IN /\ param.key \in DOMAIN param_values
                   /\ param_values[param.key] = value
                   /\ Len(query) = Len(body)
                   /\ \A j \in 1..Len(body) :
                        body[j].val = Param(param.key) => query[j].val = Lit(value)

\* Two declared parameters, one supplied: the first is bound to the supplied
\* value, the second to its default, and the batch ran.
DefaultAndSuppliedBound ==
    /\ obs.attempts # <<>>
    /\ LastAttempt.outcome = "ok"
    /\ Len(ScriptList[1].script.parameters) = 2
    /\ Len(ScriptList[1].params) = 1
    /\ ScriptList[1].params[1] # ScriptList[1].script.parameters[1].default_value
    /\ param_values[ScriptList[1].script.parameters[1].key] = ScriptList[1].params[1]
    /\ param_values[ScriptList[1].script.parameters[2].key]
            = ScriptList[1].script.parameters[2].default_value


\* ------------------------------------------------------------------------
\* prepare_dev_ui.
\* ------------------------------------------------------------------------
\* "ui/", "ui/a", "ui/b".
StrUi == <<117, 105, ChSlash>>
PathUiA == StrUi \o <<97>>
PathUiB == StrUi \o <<98>>

\* A text is a sequence of tokens:
\*   "dev_true"   is_dev_only="true"      "dev_false"    is_dev_only="false"
\*   "vis_false"  visible="false"         "vis_true"     visible="true"
\*   "run_cli"    RunCLI                  "cli_execute"  CliExecute
Tokens == {"dev_true", "vis_false", "run_cli"}
Texts == UNION {[1..n -> Tokens] : n \in 0..MaxText}

\* An RFile holding a text: decodable says whether RFile::decode succeeds.
TextFile(path, container, contents, decodable) ==
    [path |-> path, container |-> container, contents |-> contents,
     decodable |-> decodable]

\* Line 201: data.contents().contains("is_dev_only=\"true\"").
IsDevOnly(contents) ==
    \E k \in 1..Len(contents) : contents[k] = "dev_true"

\* Line 202: the two replace calls.
ReplaceAll(contents) ==
    [k \in 1..Len(contents) |->
        IF contents[k] = "dev_true" THEN "dev_false"
        ELSE IF contents[k] = "run_cli" THEN "cli_execute"
        ELSE contents[k]]

\* Line 210: replacen("visible=\"false\"", "visible=\"true\"", 1) on the text
\* from position pos on.
ReplaceFirstVisible(contents, pos) ==
    LET found == {k \in pos..Len(contents) : contents[k] = "vis_false"}
    IN IF found = {} THEN contents
       ELSE [contents EXCEPT ![CHOOSE k \in found : \A j \in found : k <= j] = "vis_true"]

\* Lines 205-215: for every occurrence of is_dev_only, from the left, the
\* first visible="false" behind it is made true.
RECURSIVE MakeVisibleFrom(_, _)
MakeVisibleFrom(contents, pos) ==
    IF pos > Len(contents) THEN contents
    ELSE IF contents[pos] \in {"dev_true", "dev_false"}
         THEN MakeVisibleFrom(ReplaceFirstVisible(contents, pos), pos + 1)
         ELSE MakeVisibleFrom(contents, pos + 1)

\* Lines 202-216: the new contents of a dev-only file.
EnableDevUi(contents) ==
    MakeVisibleFrom(ReplaceAll(contents), 1)

\* Pack::files_by_type_and_paths(&[FileType::Text], &[Folder("ui/")], true).
UiFilesOf(pack) ==
    FilesOf({f \in pack : StartsWith(f.path, StrUi)})

\* Lines 178-194: the ui files of the three archives, sorted by path.
CollectUiFiles(vanilla, modded, reserved) ==
    LET all == UiFilesOf(vanilla) \o UiFilesOf(modded) \o UiFilesOf(reserved)
    IN SortByKey(all, [i \in 1..Len(all) |-> all[i].path])

\* Line 176: the pass is not asked for.
SkipDevUi ==
    /\ pc = "start"
    /\ ~cli.enable_dev_ui
    /\ Return("Ok", "ui_skip")
    /\ UNCHANGED <<others, inputs, disk, locals, reserved_pack, runs, files, past>>

CollectUi ==
    /\ pc = "start"
    /\ cli.enable_dev_ui
    /\ files' = CollectUiFiles(vanilla_pack, modded_pack, reserved_pack)
    /\ idx' = 1
    /\ pc' = "ui_files"
    /\ UNCHANGED <<others, inputs, disk, reserved_pack, runs, result, tables, script_failed,
                   edited_tables, new_tables, param_values, query, obs, past>>

\* Lines 199-223: one turn of the loop over the files. A file that decodes
\* and is dev-only is rewritten and inserted in the override archive;
\* set_decoded, encode and insert return from the pass when they fail.
PatchUi ==
    /\ pc = "ui_files"
    /\ idx <= Len(files)
    /\ LET file == files[idx]
       IN IF file.decodable /\ IsDevOnly(file.contents)
          THEN \E io_ok \in BOOLEAN :
                IF io_ok
                THEN /\ files' = [files EXCEPT ![idx].contents = EnableDevUi(@)]
                     /\ reserved_pack' = PackInsert(reserved_pack, files'[idx])
                     /\ idx' = idx + 1
                     /\ UNCHANGED <<pc, result, obs>>
                ELSE /\ Return("Err", "ui_io")
                     /\ UNCHANGED <<files, reserved_pack, idx>>
          ELSE /\ idx' = idx + 1
               /\ UNCHANGED <<files, reserved_pack, pc, result, obs>>
    /\ UNCHANGED <<others, inputs, disk, runs, tables, script_failed, edited_tables, new_tables,
                   param_values, query, past>>

\* Line 226.
FinishUi ==
    /\ pc = "ui_files"
    /\ idx > Len(files)
    /\ Return("Ok", "ui_finish")
    /\ UNCHANGED <<others, inputs, disk, locals, reserved_pack, runs, files, past>>

\* The copies of ui/a an archive may hold: none, or one with any text.
CopiesOf(container, decodables) ==
    {{}} \cup {{TextFile(PathUiA, container, t, d)} : t \in Texts, d \in decodables}

InitDevUi ==
    /\ \E a \in CopiesOf(VanillaName, {TRUE}) :
        vanilla_pack = a \cup {TextFile(PathUiB, VanillaName, <<"dev_true", "vis_false">>, TRUE)}
    /\ modded_pack \in CopiesOf(ModName, BOOLEAN)
    /\ override_in \in CopiesOf(ReservedName, {TRUE})
    /\ reserved_pack = override_in
    /\ \E on \in BOOLEAN :
        cli = [sql_script |-> [some |-> FALSE, list |-> <<>>], enable_dev_ui |-> on,
               translation_language |-> None]
    /\ exe = [is_file |-> FALSE, created |-> 0]
    /\ db_bak = NoFile
    /\ db = [exists |-> FALSE, store |-> EmptyStore]
    /\ clock = 2
    /\ runs = 1
    /\ pc = "start"
    /\ result = "none"
    /\ tables = <<>>
    /\ idx = 1
    /\ script_failed = FALSE
    /\ edited_tables = <<>>
    /\ new_tables = <<>>
    /\ param_values = <<>>
    /\ query = <<>>
    /\ files = <<>>
    /\ obs = NoObs
    /\ past = [rebuilt |-> <<>>, runs |-> <<>>]
    /\ IdleResolver
    /\ IdleTranslation
    /\ IdleConcurrent
    /\ IdleMain

NextDevUi ==
    \/ SkipDevUi
    \/ CollectUi
    \/ PatchUi
    \/ FinishUi

SpecDevUi == InitDevUi /\ [][NextDevUi]_vars

\* The copy of ui/a in a set of files, and whether there is one.
HasUiA(pack) == \E f \in pack : f.path = PathUiA
UiA(pack) == CHOOSE f \in pack : f.path = PathUiA

\* The copy of the highest-priority archive that holds ui/a: override over
\* mods over base.
TopUiA ==
    IF HasUiA(override_in) THEN UiA(override_in)
    ELSE IF HasUiA(modded_pack) THEN UiA(modded_pack)
    ELSE UiA(vanilla_pack)

\* C10. When the pass is over and ui/a was in two or more of the archives,
\* the record at ui/a in the override archive comes from the copy of the
\* highest-priority archive that held it: it is that copy, as it was or
\* rewritten by the pass.
HighestPriorityCopyWins ==
    (/\ pc = "done"
     /\ obs.exit = "ui_finish"
     /\ HasUiA(reserved_pack)
     /\ Cardinality({k \in {1, 2, 3} :
                        HasUiA(<<vanilla_pack, modded_pack, override_in>>[k])}) >= 2)
        => /\ UiA(reserved_pack).container = TopUiA.container
           /\ UiA(reserved_pack).contents \in {TopUiA.contents, EnableDevUi(TopUiA.contents)}


\* ------------------------------------------------------------------------
\* load_order_from_file.
\* ------------------------------------------------------------------------
\* `mod "`, `add_working_directory "` and `";`.
StrModPrefix == <<109, 111, 100, 32, 34>>
StrDirPrefix == <<97, 100, 100, 95, 119, 111, 114, 107, 105, 110, 103, 95,
                  100, 105, 114, 101, 99, 116, 111, 114, 121, 32, 34>>
StrLineEnd == <<34, 59>>
StrSpace == <<32>>
\* ".pack", "a.pack", "b.pack", "m.pack", "data.pack"; the directory "dir".
StrDotPack == <<46, 112, 97, 99, 107>>
StrAPack == <<97>> \o StrDotPack
StrBPack == <<98>> \o StrDotPack
StrMPack == <<109>> \o StrDotPack
StrDataPack == StrData \o StrDotPack
StrDir == <<100, 105, 114>>

\* data_path, the primary data directory.
DataPath == StrData

\* The lines a load-order file is made of here.
LineDir == StrDirPrefix \o StrDir \o StrLineEnd
LineModA == StrModPrefix \o StrAPack \o StrLineEnd
LineModB == StrModPrefix \o StrBPack \o StrLineEnd
\* A mod line with blanks around the name.
LineModPadded == StrModPrefix \o StrSpace \o StrAPack \o StrSpace \o StrLineEnd
\* Truncated lines: `mod "` and `add_working_directory "`.
LineModShort == StrModPrefix
LineDirShort == StrDirPrefix
\* `# a`: any other line.
LineOther == <<35, 32, 97>>
Lines == {LineDir, LineModA, LineModB, LineModPadded, LineModShort, LineDirShort, LineOther}

\* The files that may be on disk: a.pack in the data directory and in dir,
\* b.pack in dir, a file named ".pack" in dir that is or is not a movie
\* archive, the movie archive m.pack in dir and the game's own data.pack.
DiskFile(dir, name, movie, ca) == [dir |-> dir, name |-> name, movie |-> movie, ca |-> ca]
Disks ==
    {a \cup b \cup c \cup d \cup
        {DiskFile(StrDir, StrMPack, TRUE, FALSE), DiskFile(DataPath, StrDataPack, FALSE, TRUE)} :
        a \in SUBSET {DiskFile(DataPath, StrAPack, FALSE, FALSE)},
        b \in SUBSET {DiskFile(StrDir, StrAPack, FALSE, FALSE)},
        c \in SUBSET {DiskFile(StrDir, StrBPack, FALSE, FALSE)},
        d \in {{}, {DiskFile(StrDir, StrDotPack, TRUE, FALSE)},
                   {DiskFile(StrDir, StrDotPack, FALSE, FALSE)}}}

\* PathBuf::join, and Path::is_file on the files of the disk.
PathJoin(dir, name) == [dir |-> dir, name |-> name]
IsFile(disk_files, path) ==
    \E f \in disk_files : f.dir = path.dir /\ f.name = path.name

\* x[from..to] of a str: it panics unless from <= to <= x.len().
SliceOk(x, from, to) == from <= to /\ to <= Len(x)
Slice(x, from, to) == SubSeq(x, from + 1, to)

\* str::trim, for blanks.
RECURSIVE TrimStart(_)
TrimStart(x) ==
    IF x # <<>> /\ Head(x) = 32 THEN TrimStart(Tail(x)) ELSE x
RECURSIVE TrimEnd(_)
TrimEnd(x) ==
    IF x # <<>> /\ x[Len(x)] = 32 THEN TrimEnd(SubSeq(x, 1, Len(x) - 1)) ELSE x
Trim(x) == TrimEnd(TrimStart(x))

\* Lines 108 and 113: the filters.
IsDirLine(x) == StartsWith(x, StrDirPrefix)
IsModLine(x) == StartsWith(x, StrModPrefix)

\* Lines 109 and 114: whether the slice of a line panics, and what it gives.
DirLinePanics(x) == ~SliceOk(x, 23, Len(x) - 2)
DirOfLine(x) == Trim(Slice(x, 23, Len(x) - 2))
ModLinePanics(x) == ~SliceOk(x, 5, Len(x) - 2)
PackNameOfLine(x) == Trim(Slice(x, 5, Len(x) - 2))

\* Lines 106-110: data_path, then the declared directories.
WorkingPaths(lines) ==
    LET dirs == SelectSeq(lines, IsDirLine)
    IN <<DataPath>> \o [i \in 1..Len(dirs) |-> DirOfLine(dirs[i])]

\* Lines 115-117: position of the first working path that has the file.
Position(working, disk_files, pack_name) ==
    LET found == {i \in 1..Len(working) : IsFile(disk_files, PathJoin(working[i], pack_name))}
    IN IF found = {} THEN 0 ELSE CHOOSE i \in found : \A j \in found : i <= j

\* Lines 112-119: filter_map over the mod lines.
RECURSIVE ResolveFrom(_, _, _)
ResolveFrom(lines, working, disk_files) ==
    IF lines = <<>> THEN <<>>
    ELSE LET pack_name == PackNameOfLine(Head(lines))
             at == Position(working, disk_files, pack_name)
             rest == ResolveFrom(Tail(lines), working, disk_files)
         IN IF at = 0 THEN rest ELSE <<PathJoin(working[at], pack_name)>> \o rest

ModPathsAfterData(lines, working, disk_files) ==
    <<PathJoin(DataPath, <<>>)>> \o ResolveFrom(SelectSeq(lines, IsModLine), working, disk_files)

ModPaths(lines, working, disk_files) ==
    ResolveFrom(SelectSeq(lines, IsModLine), working, disk_files)

\* Lines 122-125: the known archives of the game.
VanillaPaths(disk_files) ==
    {PathJoin(f.dir, f.name) : f \in {g \in disk_files : g.ca}}

\* Line 130: Path::ends_with(".pack") compares whole components, so it keeps
\* the files whose name is ".pack".
EndsWithPack(path) == path.name = StrDotPack

\* Lines 129-141, for one working path: the movie archives to push. Here a
\* directory holds at most one file that passes line 130.
MoviesIn(working_path, list, disk_files) ==
    LET paths == {PathJoin(f.dir, f.name) : f \in {g \in disk_files : g.dir = working_path}}
        kept == {x \in paths : EndsWithPack(x)}
        movies == {x \in kept :
                     /\ \A k \in 1..Len(list) : list[k] # x
                     /\ x \notin VanillaPaths(disk_files)
                     /\ \E f \in disk_files : f.dir = x.dir /\ f.name = x.name /\ f.movie}
    IN IF movies = {} THEN <<>> ELSE <<CHOOSE x \in movies : TRUE>>

\* Lines 128-143: the loop over the working paths.
RECURSIVE PushMovies(_, _, _)
PushMovies(working, list, disk_files) ==
    IF working = <<>> THEN list
    ELSE PushMovies(Tail(working), list \o MoviesIn(Head(working), list, disk_files), disk_files)

\* Nothing else runs while load_order_from_file does.
IdlePasses ==
    /\ vanilla_pack = {}
    /\ modded_pack = {}
    /\ override_in = {}
    /\ reserved_pack = {}
    /\ cli = [sql_script |-> [some |-> FALSE, list |-> <<>>], enable_dev_ui |-> FALSE,
               translation_language |-> None]
    /\ exe = [is_file |-> FALSE, created |-> 0]
    /\ db_bak = NoFile
    /\ db = [exists |-> FALSE, store |-> EmptyStore]
    /\ clock = 2
    /\ runs = 1
    /\ result = "none"
    /\ tables = <<>>
    /\ idx = 1
    /\ script_failed = FALSE
    /\ edited_tables = <<>>
    /\ new_tables = <<>>
    /\ param_values = <<>>
    /\ query = <<>>
    /\ files = <<>>
    /\ obs = NoObs
    /\ past = [rebuilt |-> <<>>, runs |-> <<>>]

passes == <<vanilla_pack, modded_pack, override_in, reserved_pack, cli, exe, db_bak, db,
            clock, runs, tables, idx, script_failed, edited_tables, new_tables,
            param_values, query, files, past>>

InitLoadOrder ==
    /\ IdlePasses
    /\ IdleTranslation
    /\ IdleConcurrent
    /\ IdleMain
    /\ pc = "load_order"
    /\ string \in UNION {[1..n -> Lines] : n \in 0..MaxLines}
    /\ fs \in Disks
    /\ working_paths = <<>>
    /\ mod_paths = <<>>

\* Lines 93-103: the file is opened and read; both may fail.
ReadLoadOrder ==
    /\ pc = "load_order"
    /\ \E io_ok \in BOOLEAN :
        IF io_ok THEN pc' = "working_paths" /\ UNCHANGED <<result, obs>>
        ELSE Return("Err", "load_order_io")
    /\ UNCHANGED <<passes, translation, concurrent, launcher, resolver>>

\* Lines 106-110.
GetWorkingPaths ==
    /\ pc = "working_paths"
    /\ IF \E i \in 1..Len(string) : IsDirLine(string[i]) /\ DirLinePanics(string[i])
       THEN Return("panic", "working_paths") /\ UNCHANGED working_paths
       ELSE /\ working_paths' = WorkingPaths(string)
            /\ pc' = "mod_paths"
            /\ UNCHANGED <<result, obs>>
    /\ UNCHANGED <<passes, translation, concurrent, launcher, string, fs, mod_paths>>

\* Lines 112-119.
GetModPaths ==
    /\ pc = "mod_paths"
    /\ IF \E i \in 1..Len(string) : IsModLine(string[i]) /\ ModLinePanics(string[i])
       THEN Return("panic", "mod_paths") /\ UNCHANGED mod_paths
       ELSE /\ mod_paths' = ModPaths(string, working_paths, fs)
            /\ pc' = "movie_packs"
            /\ UNCHANGED <<result, obs>>
    /\ UNCHANGED <<passes, translation, concurrent, launcher, string, fs, working_paths>>

\* Lines 122-145: ca_packs_paths may fail; the movie archives are pushed and
\* the list is returned.
GetMoviePacks ==
    /\ pc = "movie_packs"
    /\ \E io_ok \in BOOLEAN :
        IF io_ok
        THEN /\ mod_paths' = PushMovies(working_paths, mod_paths, fs)
             /\ Return("Ok", "load_order")
        ELSE /\ Return("Err", "ca_packs_paths")
             /\ UNCHANGED mod_paths
    /\ UNCHANGED <<passes, translation, concurrent, launcher, string, fs, working_paths>>

NextLoadOrder ==
    \/ ReadLoadOrder
    \/ GetWorkingPaths
    \/ GetModPaths
    \/ GetMoviePacks

SpecLoadOrder == InitLoadOrder /\ [][NextLoadOrder]_vars


\* ------------------------------------------------------------------------
\* Properties of load_order_from_file.
\* ------------------------------------------------------------------------
\* The function returned its list.
LoadOrderReturned == pc = "done" /\ obs.exit = "load_order"

\* The data directory as an element of a list of paths.
DataPathEntry == PathJoin(DataPath, <<>>)

\* The directories and the mod names the file declares, in its order.
DeclaredDirs == Tail(working_paths)
DeclaredMods ==
    LET mods == SelectSeq(string, IsModLine)
    IN [i \in 1..Len(mods) |-> PackNameOfLine(mods[i])]

\* Some working path holds a file of that name.
IsResolvable(pack_name) ==
    \E i \in 1..Len(working_paths) : IsFile(fs, PathJoin(working_paths[i], pack_name))

\* C11 (as amended). The returned list holds, in declaration order, one
\* path for each declared mod that some working directory holds, then the
\* auto-detected movie archives, each once; every element is an archive
\* file, the data directory itself is not an element. With a.pack and
\* b.pack only in dir the list starts with dir/a.pack, dir/b.pack.
ReturnsDeclaredModsThenMovies ==
    LoadOrderReturned =>
        LET found == SelectSeq(DeclaredMods, IsResolvable)
            k == Len(found)
        IN /\ Len(mod_paths) >= k
           /\ \A i \in 1..Len(mod_paths) :
                /\ mod_paths[i] # DataPathEntry
                /\ IsFile(fs, mod_paths[i])
                /\ \E w \in 1..Len(working_paths) : working_paths[w] = mod_paths[i].dir
                /\ i <= k => mod_paths[i].name = found[i]
                /\ i > k =>
                    /\ \E f \in fs : /\ PathJoin(f.dir, f.name) = mod_paths[i]
                                     /\ f.movie /\ ~f.ca
                    /\ \A j \in 1..(i - 1) : mod_paths[j] # mod_paths[i]
           /\ (/\ string = <<LineDir, LineModA, LineModB>>
               /\ ~IsFile(fs, PathJoin(DataPath, StrAPack))
               /\ IsFile(fs, PathJoin(StrDir, StrAPack))
               /\ IsFile(fs, PathJoin(StrDir, StrBPack)))
                => SubSeq(mod_paths, 1, 2) = <<PathJoin(StrDir, StrAPack), PathJoin(StrDir, StrBPack)>>

\* Both mods found through dir only, and a movie archive detected after them.
TwoModsAndMovieReturned ==
    /\ LoadOrderReturned
    /\ string = <<LineDir, LineModA, LineModB>>
    /\ mod_paths = <<PathJoin(StrDir, StrAPack), PathJoin(StrDir, StrBPack),
                     PathJoin(StrDir, StrDotPack)>>

\* C11 (as stated). The first element of the returned list is the data
\* directory.
DataPathIsFirst ==
    LoadOrderReturned => (mod_paths # <<>> /\ mod_paths[1] = DataPathEntry)

\* C12. A declared mod resolves against the first directory holding a file
\* of its name, the declared directories in declaration order and the data
\* directory last: a mod found in the data directory is in no declared one.
DeclaredDirectoryBeforeData ==
    LoadOrderReturned =>
        \A i \in 1..Len(SelectSeq(DeclaredMods, IsResolvable)) :
            mod_paths[i].dir = DataPath
                => \A d \in 1..Len(DeclaredDirs) :
                    ~IsFile(fs, PathJoin(DeclaredDirs[d], mod_paths[i].name))

\* C13. No line of the file, short or truncated lines included, makes the
\* resolver panic.
NoLinePanics ==
    result # "panic"


\* ------------------------------------------------------------------------
\* prepare_translations.
\* ------------------------------------------------------------------------
\* "text/", "other/" and the names of loc files.
StrText == <<116, 101, 120, 116, ChSlash>>
StrOther == <<111, 116, 104, 101, 114, ChSlash>>
StrALoc == <<97, 46, 108, 111, 99>>
StrBLoc == <<98, 46, 108, 111, 99>>
StrCLoc == <<99, 46, 108, 111, 99>>

\* Option::Some.
Some(x) == [some |-> TRUE, value |-> x]

\* A row of a loc table: key and value (the flag is always false). `from`
\* tells where the row comes from: an archive of the load order, the fixes
\* table, the installed game or the English reference. No step of the pass
\* reads it.
FromPack(i) == [kind |-> "pack", at |-> i]
FromFixes == [kind |-> "fixes", at |-> 0]
FromInstalled == [kind |-> "installed", at |-> 0]
FromEnglish == [kind |-> "english", at |-> 0]
LocRow(key, value, from) == [key |-> key, value |-> value, from |-> from]
\* The rows of a table, from its (key, value) pairs.
LocRows(pairs, from) == [i \in 1..Len(pairs) |-> LocRow(pairs[i][1], pairs[i][2], from)]

\* A unit of a PackTranslation.
Unit(key, value_original, value_translated, needs_retranslation) ==
    [key |-> key, value_original |-> value_original,
     value_translated |-> value_translated, needs_retranslation |-> needs_retranslation]

\* A loc file of an archive.
LocFile(path, pairs, decodable) == [path |-> path, pairs |-> pairs, decodable |-> decodable]

\* The archives of the load order: with their translation in the corpus
\* (PackTranslation::load) or without, and their own loc files.
PackA ==
    [translation |-> Some({Unit("k1", "e1", "t1", FALSE), Unit("k2", "e2", "", FALSE)}),
     locs |-> {LocFile(StrText \o StrALoc, <<<<"k1", "own">>>>, TRUE)}]
PackB ==
    [translation |-> Some({Unit("k3", "e3", "t3", TRUE), Unit("k2", "", "", FALSE)}),
     locs |-> {}]
PackC ==
    [translation |-> None,
     locs |-> {LocFile(StrText \o StrBLoc, <<<<"k2", "">>>>, TRUE),
               LocFile(StrText \o StrALoc, <<<<"k1", "c1">>, <<"k3", "v3">>>>, TRUE),
               LocFile(StrOther \o StrALoc, <<<<"k1", "wipe">>>>, TRUE)}]
PackD ==
    [translation |-> None,
     locs |-> {LocFile(StrText \o StrALoc, <<<<"k1", "d1">>>>, TRUE),
               LocFile(StrText \o StrCLoc, <<<<"k2", "zz">>>>, FALSE)}]
Packs == {PackA, PackB, PackC, PackD}

\* The corpus: the fixes table of the language and the English reference.
FixesPairs == <<<<"k1", "f1">>>>
EnglishPairs == <<<<"k1", "c1">>, <<"k3", "v3">>, <<"k2", "">>, <<"k4", "e4">>>>
\* The installed game: its loc tables, and its localisation.loc (legacy).
InstalledLocs == {<<<<<<"k1", "i1">>>>>>,
                  <<<<<<"k1", "i1">>, <<"k1", "i7">>>>>>,
                  <<<<<<"k1", "i1">>, <<"k3", "">>>>, <<<<"k1", "i9">>, <<"k2", "i2">>>>>>}
OldLocPairs == <<<<"k1", "o1">>, <<"k5", "o5">>>>

\* The keys of a list of rows.
Keys(rows) == {rows[i].key : i \in 1..Len(rows)}

\* The ways to enumerate a set: the order of iteration of a HashMap or a
\* HashSet.
Orders(set) ==
    {f \in [1..Cardinality(set) -> set] : \A i, j \in 1..Cardinality(set) : f[i] = f[j] => i = j}

\* Concatenation of a list of lists.
RECURSIVE Flatten(_)
Flatten(lists) ==
    IF lists = <<>> THEN <<>> ELSE Head(lists) \o Flatten(Tail(lists))

UnitRowsAlwaysOriginal(tr, from) ==
    IF tr.value_translated # "" /\ ~tr.needs_retranslation
    THEN <<LocRow(tr.key, tr.value_translated, from)>>
    ELSE IF tr.value_original # ""
         THEN <<LocRow(tr.key, tr.value_original, from)>>
         ELSE <<>>

\* Lines 622-638: the row a unit gives, if any.
UnitRows(tr, from) ==
    IF tr.value_translated # "" /\ ~tr.needs_retranslation
    THEN <<LocRow(tr.key, tr.value_translated, from)>>
    ELSE IF game.use_old_multilanguage_logic /\ tr.value_original # ""
         THEN <<LocRow(tr.key, tr.value_original, from)>>
         ELSE <<>>

\* Lines 620-639: the rows of the units, in the order of the map's values.
TranslationRows(units, from) ==
    Flatten([i \in 1..Len(units) |-> UnitRows(units[i], from)])

\* Lines 652-670: the loc files under text/, sorted by path, those that
\* decode, merged. Loc::merge is taken to concatenate the tables.
MergedLocRows(pack, from) ==
    LET locs == FilesOf({loc \in pack.locs : StartsWith(loc.path, StrText)})
        sorted == SortByKey(locs, [i \in 1..Len(locs) |-> locs[i].path])
        locs_split == SelectSeq(sorted, LAMBDA loc : loc.decodable)
    IN Flatten([i \in 1..Len(locs_split) |-> LocRows(locs_split[i].pairs, from)])

\* Loc::optimize against the vanilla English table: the rows whose value
\* is the one of the reference for their key are dropped.
Optimize(rows, reference) ==
    SelectSeq(rows, LAMBDA row :
        ~\E i \in 1..Len(reference) :
            reference[i].key = row.key /\ reference[i].value = row.value)

RunsOptimizerOnModernOnly(reference, rows) ==
    ~game.use_old_multilanguage_logic /\ reference.some /\ rows # <<>>

\* Lines 698-707: the optimizer runs when the reference file is there and
\* there are rows.
RunsOptimizer(reference, rows) ==
    reference.some /\ rows # <<>>

\* Lines 749-753: the map from the reversed rows; of the rows of one key the
\* last inserted stays, which is the first of the list.
HashOf(rows) ==
    [key \in Keys(rows) |->
        rows[CHOOSE i \in 1..Len(rows) :
                /\ rows[i].key = key
                /\ \A j \in 1..Len(rows) : rows[j].key = key => i <= j].value]

\* Lines 783-805: the English rows, reversed, that the installed tables
\* lack or have empty.
RECURSIVE Reverse(_)
Reverse(list) ==
    IF list = <<>> THEN <<>> ELSE Reverse(Tail(list)) \o <<Head(list)>>

MissingEntries(english, hash) ==
    SelectSeq(Reverse(english), LAMBDA entry :
        /\ entry.value # ""
        /\ (entry.key \in DOMAIN hash => hash[entry.key] = ""))

\* Lines 764-774: the rows for the keys to fill, in the given order.
NewRows(keys, hash) ==
    Flatten([i \in 1..Len(keys) |->
        IF keys[i] \in DOMAIN hash
        THEN <<LocRow(keys[i], hash[keys[i]], FromInstalled)>>
        ELSE <<>>])

\* TRANSLATED_PATH and TRANSLATED_PATH_OLD.
TranslatedPath == StrText \o <<33>> \o StrALoc
TranslatedPathOld == StrText \o <<108>> \o StrALoc

\* The passes of prepare_sql_queries and prepare_dev_ui are not running.
IdleSql ==
    /\ vanilla_pack = {}
    /\ modded_pack = {}
    /\ override_in = {}
    /\ reserved_pack = {}
    /\ exe = [is_file |-> FALSE, created |-> 0]
    /\ db_bak = NoFile
    /\ db = [exists |-> FALSE, store |-> EmptyStore]
    /\ clock = 2
    /\ runs = 1
    /\ result = "none"
    /\ tables = <<>>
    /\ idx = 1
    /\ script_failed = FALSE
    /\ edited_tables = <<>>
    /\ new_tables = <<>>
    /\ param_values = <<>>
    /\ query = <<>>
    /\ files = <<>>
    /\ obs = NoObs
    /\ past = [rebuilt |-> <<>>, runs |-> <<>>]

\* What prepare_translations neither reads nor writes.
unread == <<vanilla_pack, modded_pack, override_in, exe, db_bak, db, clock, runs, tables,
            script_failed, edited_tables, new_tables, param_values, query, files, past,
            resolver, concurrent, launcher, cli, game, corpus, load_order>>

InitTranslations ==
    /\ IdleSql
    /\ IdleResolver
    /\ IdleConcurrent
    /\ IdleMain
    /\ pc = "translations"
    /\ \E language \in {None, Some("sp")} :
        cli = [sql_script |-> [some |-> FALSE, list |-> <<>>], enable_dev_ui |-> FALSE,
               translation_language |-> language]
    /\ \E legacy \in BOOLEAN, locs \in InstalledLocs, old_loc \in {None, Some(OldLocPairs)} :
        game = [use_old_multilanguage_logic |-> legacy, locs |-> locs, old_loc |-> old_loc]
    /\ \E fixes \in {None, Some(FixesPairs)}, english \in {None, Some(EnglishPairs)} :
        corpus = [fixes |-> fixes, vanilla_english |-> english]
    /\ load_order \in UNION {[1..n -> Packs] : n \in 0..MaxPacks}
    /\ loc_data = <<>>
    /\ keys_pre_opt = {}
    /\ vanilla_english_loc = None

\* Line 574: no language was asked for.
SkipTranslations ==
    /\ pc = "translations"
    /\ ~cli.translation_language.some
    /\ Return("Ok", "tr_skip")
    /\ UNCHANGED <<unread, reserved_pack, idx, loc_data, keys_pre_opt, vanilla_english_loc>>

\* The failures met so far that did not end the pass.
Swallow(failures) == obs' = [obs EXCEPT !.swallowed = @ \cup failures]

\* Lines 577-613: the folders are created (which may fail), the corpus is
\* refreshed (update_repo may fail, and its result is dropped at line 585),
\* and the row list is made.
StartTranslations ==
    /\ pc = "translations"
    /\ cli.translation_language.some
    /\ \E io_ok \in BOOLEAN, refresh_ok \in BOOLEAN :
        IF io_ok
        THEN /\ pc' = "tr_packs"
             /\ idx' = 1
             /\ loc_data' = <<>>
             /\ Swallow(IF refresh_ok THEN {} ELSE {"refresh"})
             /\ UNCHANGED result
        ELSE /\ Return("Err", "tr_io")
             /\ UNCHANGED <<idx, loc_data>>
    /\ UNCHANGED <<unread, reserved_pack, keys_pre_opt, vanilla_english_loc>>

\* Lines 654-662: the loc files under text/ that do not decode.
UndecodableLocs(pack) ==
    {loc \in pack.locs : StartsWith(loc.path, StrText) /\ ~loc.decodable}

\* Lines 615-672: one archive of the load order. PackTranslation::load gives
\* an Err for a set that is not there and for one that cannot be read.
MergePack ==
    /\ pc = "tr_packs"
    /\ idx <= Len(load_order)
    /\ LET pack == load_order[idx]
       IN IF pack.translation.some
          THEN /\ \E units \in Orders(pack.translation.value) :
                    loc_data' = loc_data \o TranslationRows(units, FromPack(idx))
               /\ idx' = idx + 1
               /\ UNCHANGED <<pc, result, obs>>
          ELSE \E io_ok \in BOOLEAN, set_unreadable \in BOOLEAN :
                IF io_ok
                THEN /\ loc_data' = loc_data \o MergedLocRows(pack, FromPack(idx))
                     /\ idx' = idx + 1
                     /\ Swallow((IF set_unreadable THEN {"translation_set"} ELSE {})
                                \cup (IF UndecodableLocs(pack) # {} THEN {"loc_decode"} ELSE {}))
                     /\ UNCHANGED <<pc, result>>
                ELSE /\ Return("Err", "tr_pack_io")
                     /\ UNCHANGED <<idx, loc_data>>
    /\ UNCHANGED <<unread, reserved_pack, keys_pre_opt, vanilla_english_loc>>

\* Lines 675-684: the fixes table, if the corpus has one.
ApplyFixes ==
    /\ pc = "tr_packs"
    /\ idx > Len(load_order)
    /\ IF corpus.fixes.some
       THEN \E io_ok \in BOOLEAN :
             IF io_ok
             THEN /\ loc_data' = loc_data \o LocRows(corpus.fixes.value, FromFixes)
                  /\ pc' = "tr_optimize"
                  /\ UNCHANGED <<result, obs>>
             ELSE /\ Return("Err", "tr_fixes")
                  /\ UNCHANGED loc_data
       ELSE /\ pc' = "tr_optimize"
            /\ UNCHANGED <<loc_data, result, obs>>
    /\ UNCHANGED <<unread, reserved_pack, idx, keys_pre_opt, vanilla_english_loc>>

\* Lines 686-719: keys_pre_opt, then the optimizer. tsv_import_from_path
\* gives an Err for a reference file that is not there and for one that
\* cannot be read, and line 700 goes on without the file.
OptimizeLoc ==
    /\ pc = "tr_optimize"
    /\ \E io_ok \in BOOLEAN, file_unreadable \in BOOLEAN :
        IF corpus.vanilla_english.some /\ ~io_ok
        THEN /\ Return("Err", "tr_english")
             /\ UNCHANGED <<loc_data, keys_pre_opt, vanilla_english_loc>>
        ELSE /\ keys_pre_opt' = IF game.use_old_multilanguage_logic THEN {} ELSE Keys(loc_data)
             /\ vanilla_english_loc' = corpus.vanilla_english
             /\ IF RunsOptimizer(corpus.vanilla_english, loc_data)
                THEN /\ loc_data' = Optimize(loc_data, LocRows(corpus.vanilla_english.value, FromEnglish))
                     /\ obs' = [obs EXCEPT !.before_opt = Keys(loc_data),
                                           !.after_opt = Keys(loc_data'),
                                           !.opt = "ran"]
                ELSE /\ UNCHANGED loc_data
                     /\ obs' = [obs EXCEPT !.before_opt = Keys(loc_data),
                                           !.after_opt = Keys(loc_data),
                                           !.opt = "skipped",
                                           !.swallowed =
                                               IF ~corpus.vanilla_english.some /\ file_unreadable
                                               THEN @ \cup {"reference"} ELSE @]
             /\ pc' = "tr_backfill"
             /\ UNCHANGED result
    /\ UNCHANGED <<unread, reserved_pack, idx>>

\* Lines 722-729: the localisation.loc of the game is appended.
BackfillLegacy ==
    /\ pc = "tr_backfill"
    /\ game.use_old_multilanguage_logic
    /\ \E io_ok \in BOOLEAN :
        IF io_ok
        THEN /\ loc_data' = IF game.old_loc.some
                            THEN loc_data \o LocRows(game.old_loc.value, FromInstalled)
                            ELSE loc_data
             /\ pc' = "tr_write"
             /\ UNCHANGED <<result, obs>>
        ELSE /\ Return("Err", "tr_ca_packs")
             /\ UNCHANGED loc_data
    /\ UNCHANGED <<unread, reserved_pack, idx, keys_pre_opt, vanilla_english_loc>>

\* Lines 733-812: the keys the optimizer dropped come back with the value of
\* the installed tables, and the English rows they lack go on top.
BackfillModern ==
    /\ pc = "tr_backfill"
    /\ ~game.use_old_multilanguage_logic
    /\ \E io_ok \in BOOLEAN :
        IF io_ok
        THEN LET vanilla_loc_data == Flatten([i \in 1..Len(game.locs) |->
                                        LocRows(game.locs[i], FromInstalled)])
                 vanilla_loc_data_hash == HashOf(vanilla_loc_data)
                 keys_post_opt == Keys(loc_data)
                 keys_to_fill_from_vanilla == keys_pre_opt \ keys_post_opt
             IN /\ \E keys \in Orders(keys_to_fill_from_vanilla) :
                    LET filled == loc_data \o NewRows(keys, vanilla_loc_data_hash)
                    IN loc_data' =
                        IF vanilla_english_loc.some
                        THEN MissingEntries(LocRows(vanilla_english_loc.value, FromEnglish),
                                            vanilla_loc_data_hash) \o filled
                        ELSE filled
                /\ pc' = "tr_write"
                /\ UNCHANGED <<result, obs>>
        ELSE /\ Return("Err", "tr_ca_packs")
             /\ UNCHANGED loc_data
    /\ UNCHANGED <<unread, reserved_pack, idx, keys_pre_opt, vanilla_english_loc>>

\* Lines 814-829: the rows are written in the override archive.
WriteLoc ==
    /\ pc = "tr_write"
    /\ reserved_pack' =
        IF loc_data # <<>>
        THEN PackInsert(reserved_pack,
                        [path |-> IF game.use_old_multilanguage_logic
                                  THEN TranslatedPathOld ELSE TranslatedPath,
                         rows |-> loc_data])
        ELSE reserved_pack
    /\ Return("Ok", "translations")
    /\ UNCHANGED <<unread, idx, loc_data, keys_pre_opt, vanilla_english_loc>>

NextTranslations ==
    \/ SkipTranslations
    \/ StartTranslations
    \/ MergePack
    \/ ApplyFixes
    \/ OptimizeLoc
    \/ BackfillLegacy
    \/ BackfillModern
    \/ WriteLoc

SpecTranslations == InitTranslations /\ [][NextTranslations]_vars


\* ------------------------------------------------------------------------
\* Properties of prepare_translations.
\* ------------------------------------------------------------------------
\* The pass wrote its table and returned.
TranslationsReturned == pc = "done" /\ obs.exit = "translations"

\* The positions in loc_data of the rows that come from a given place.
RowsFrom(from) == {p \in 1..Len(loc_data) : loc_data[p].from = from}

\* The archives of the load order whose rows have been appended.
MergedPacks ==
    IF pc = "tr_packs" THEN 1..(idx - 1)
    ELSE IF pc = "tr_optimize" THEN 1..Len(load_order)
    ELSE {}

\* C14. When the pass has returned, the keys of the assembled rows are the
\* keys the row list had immediately before the optimize pass, on the
\* legacy and on the modern path.
KeysBeforeOptimizeAreKeysAfterBackfill ==
    TranslationsReturned => Keys(loc_data) = obs.before_opt

\* C17. Of an archive with a translation in the corpus, every unit gives one
\* row (key, translated value) if that value is not empty and the unit needs
\* no retranslation; else, on a legacy title only, one row (key, original
\* value) if that value is not empty; else no row. The archive gives no
\* other row: its own loc tables are not merged.
UnitsGiveTheirRows ==
    \A i \in MergedPacks :
        load_order[i].translation.some =>
            LET units == load_order[i].translation.value
                valuesOf(key) == [p \in {q \in RowsFrom(FromPack(i)) : loc_data[q].key = key} |->
                                    loc_data[p].value]
            IN /\ \A p \in RowsFrom(FromPack(i)) : \E tr \in units : tr.key = loc_data[p].key
               /\ \A tr \in units :
                    LET given == valuesOf(tr.key)
                    IN IF tr.value_translated # "" /\ ~tr.needs_retranslation
                       THEN Cardinality(DOMAIN given) = 1
                            /\ \A p \in DOMAIN given : given[p] = tr.value_translated
                       ELSE IF game.use_old_multilanguage_logic /\ tr.value_original # ""
                            THEN Cardinality(DOMAIN given) = 1
                                 /\ \A p \in DOMAIN given : given[p] = tr.value_original
                            ELSE DOMAIN given = {}

\* On a legacy title a translated archive gave a translated row and an
\* original one; on a modern title a unit without translation gave none.
UnitsGaveRows ==
    /\ pc = "tr_optimize"
    /\ load_order = <<PackA, PackB>>
    /\ \/ /\ game.use_old_multilanguage_logic
          /\ Cardinality(RowsFrom(FromPack(1))) = 2
          /\ Cardinality(RowsFrom(FromPack(2))) = 1
       \/ /\ ~game.use_old_multilanguage_logic
          /\ Cardinality(RowsFrom(FromPack(1))) = 1
          /\ RowsFrom(FromPack(2)) = {}

\* C18. The archives are processed highest priority first (priority is the
\* position in the load order, later wins) and their rows are appended in
\* that order: a row of a later archive never follows one of an earlier.
HighestPriorityArchiveFirst ==
    \A i, j \in MergedPacks :
        i < j => \A p \in RowsFrom(FromPack(i)), q \in RowsFrom(FromPack(j)) : q < p

\* C19. Once the fixes table is appended, no row of an archive for a key of
\* the fixes table precedes the fixes row of that key.
FixesRowsComeFirst ==
    pc = "tr_optimize" =>
        \A q \in RowsFrom(FromFixes), p \in 1..Len(loc_data) :
            (loc_data[p].from.kind = "pack" /\ loc_data[p].key = loc_data[q].key)
                => q < p

\* C20 (as amended). The optimizer runs, on legacy and modern titles alike,
\* exactly when the English reference is in the corpus and there are rows;
\* the backfill starts only when the optimize step is over.
OptimizerRunsBeforeBackfillOnAnyTitle ==
    /\ obs.opt # "none" =>
        (obs.opt = "ran" <=> (corpus.vanilla_english.some /\ obs.before_opt # {}))
    /\ (pc \in {"tr_backfill", "tr_write"} \/ TranslationsReturned) => obs.opt # "none"
    /\ pc \in {"translations", "tr_packs", "tr_optimize"} =>
        (\A p \in 1..Len(loc_data) : loc_data[p].from \notin {FromInstalled, FromEnglish})

\* The optimizer ran on a legacy title, and the game's table was appended
\* after it.
OptimizedLegacyTitle ==
    /\ TranslationsReturned
    /\ game.use_old_multilanguage_logic
    /\ obs.opt = "ran"
    /\ RowsFrom(FromInstalled) # {}

\* C20 (as stated). On a legacy title the rows are never passed to the
\* optimizer.
OptimizerOnModernTitlesOnly ==
    game.use_old_multilanguage_logic => obs.opt # "ran"


\* ------------------------------------------------------------------------
\* The passes on the archives: prepare_dev_ui and prepare_sql_queries.
\* ------------------------------------------------------------------------
InitPasses == InitSql \/ InitDevUi

NextPasses ==
    \/ NextSql
    \/ NextDevUi

SpecPasses == InitPasses /\ [][NextPasses]_vars

\* C15. No step of a pass adds, removes or changes a record of the base
\* archive or of the merged mod archive: what a pass renames, decodes or
\* rewrites is a clone, and only the override archive takes records.
SourceArchivesAreReadOnly ==
    [][vanilla_pack' = vanilla_pack /\ modded_pack' = modded_pack]_vars

\* A pass has worked on clones of base records and put them in the override
\* archive: a renamed base table pulled back from the store, or a rewritten
\* ui file of the base archive, while the base archive holds the records as
\* they were.
ClonesInsertedInOverride ==
    /\ pc = "done"
    /\ \/ /\ obs.exit = "finish"
          /\ \E k \in 1..Len(obs.inserts) :
                /\ tables[obs.inserts[k].i].is_vanilla
                /\ tables[obs.inserts[k].i].file \in reserved_pack
                /\ \A f \in vanilla_pack : f.path # tables[obs.inserts[k].i].file.path
       \/ /\ obs.exit = "ui_finish"
          /\ \E f \in vanilla_pack, g \in reserved_pack :
                /\ g.path = f.path
                /\ g.container = VanillaName
                /\ g.contents # f.contents


\* ------------------------------------------------------------------------
\* Two invocations of prepare_sql_queries for the same game. db_path and
\* db_path_bak depend on the game alone (lines 276-277), so the invocations
\* share the two files; the steps of one are those of the single pipeline.
\* ------------------------------------------------------------------------
Invocations == 1..MaxInvocations

\* What the steps of an invocation leave alone.
shared == <<resolver, translation, launcher, vanilla_pack, modded_pack, override_in, reserved_pack, cli,
            exe, clock, runs, pc, result, locals, files, obs, past>>

\* An invocation before its first step. foreign: it ran a script on, or
\* pulled tables from, a working store another invocation wrote in;
\* mid_rebuild: it copied the snapshot while another was rebuilding it.
NewInvocation ==
    [pc |-> "start", tables |-> <<>>, idx |-> 1, foreign |-> FALSE, mid_rebuild |-> FALSE]

InitConcurrent ==
    /\ LaunchWith({"none"},
                {<<[script |-> ScriptCreate, params |-> <<>>],
                   [script |-> ScriptUpdate, params |-> <<>>]>>,
                 <<[script |-> ScriptUpdate, params |-> <<>>]>>},
                {{}}, ExeStates, {NoFile, OldSnapshot})
    /\ invocations = [p \in Invocations |-> NewInvocation]
    /\ db_writers = {}
    /\ IdleMain

\* Lines 241-264.
CollectOf(p) ==
    /\ invocations[p].pc = "start"
    /\ invocations' = [invocations EXCEPT
                         ![p].tables = CollectTables(vanilla_pack, modded_pack, reserved_pack),
                         ![p].pc = "check"]
    /\ UNCHANGED <<shared, db_bak, db, db_writers>>

\* Lines 274-280.
CheckSnapshotOf(p) ==
    /\ invocations[p].pc = "check"
    /\ invocations' = [invocations EXCEPT
                         ![p].pc = IF NeedsRebuild(db_bak, exe) THEN "reset" ELSE "reuse"]
    /\ UNCHANGED <<shared, db_bak, db, db_writers>>

\* Lines 284-295: from here to the end of the loop at 299-310 the
\* invocation is rebuilding the snapshot.
ResetSnapshotOf(p) ==
    /\ invocations[p].pc = "reset"
    /\ db_bak' = [exists |-> TRUE, store |-> ClearStore(db_bak.store), modified |-> clock]
    /\ invocations' = [invocations EXCEPT ![p].pc = "build_vanilla"]
    /\ UNCHANGED <<shared, db, db_writers>>

\* Lines 297-310.
BuildVanillaOf(p) ==
    /\ invocations[p].pc = "build_vanilla"
    /\ db_bak' = [db_bak EXCEPT !.store = ProjectFrom(@, invocations[p].tables, 1, TRUE)]
    /\ invocations' = [invocations EXCEPT
                         ![p].tables = DecodeFrom(@, 1, TRUE),
                         ![p].pc = "copy"]
    /\ UNCHANGED <<shared, db, db_writers>>

\* Lines 315-323.
ReuseSnapshotOf(p) ==
    /\ invocations[p].pc = "reuse"
    /\ invocations' = [invocations EXCEPT
                         ![p].tables = DecodeFrom(@, 1, TRUE),
                         ![p].pc = "copy"]
    /\ UNCHANGED <<shared, db_bak, db, db_writers>>

\* Lines 325-327: std::fs::copy takes no lock on either file.
CopySnapshotOf(p) ==
    /\ invocations[p].pc = "copy"
    /\ db' = [exists |-> TRUE, store |-> db_bak.store]
    /\ db_writers' = {p}
    /\ invocations' = [invocations EXCEPT
                         ![p].mid_rebuild =
                            \E q \in Invocations \ {p} : invocations[q].pc = "build_vanilla",
                         ![p].pc = "build_modded"]
    /\ UNCHANGED <<shared, db_bak>>

\* Lines 329-341.
BuildModdedOf(p) ==
    /\ invocations[p].pc = "build_modded"
    /\ db' = [db EXCEPT !.store = ProjectFrom(@, invocations[p].tables, 1, FALSE)]
    /\ db_writers' = db_writers \cup {p}
    /\ invocations' = [invocations EXCEPT
                         ![p].tables = DecodeFrom(@, 1, FALSE),
                         ![p].idx = 1,
                         ![p].pc = "scripts"]
    /\ UNCHANGED <<shared, db_bak>>

\* Lines 349-390: one script, on the file at db_path as it is now.
RunScriptOf(p) ==
    /\ invocations[p].pc = "scripts"
    /\ LET arg == cli.sql_script.list[invocations[p].idx]
           values == ParamValues(arg.script.parameters, arg.params)
           run == ExecuteBatch(db.store, Prepare(arg.script.body, values, ReservedName))
       IN /\ db' = [db EXCEPT !.store = run.store]
          /\ db_writers' = db_writers \cup {p}
          /\ invocations' = [invocations EXCEPT
                               ![p].foreign = @ \/ db_writers # {p},
                               ![p].idx = @ + 1,
                               ![p].pc = IF invocations[p].idx = Len(cli.sql_script.list)
                                         THEN "retrieve" ELSE "scripts"]
    /\ UNCHANGED <<shared, db_bak>>

\* Lines 418-438: the tables are pulled from the file at db_path.
RetrieveOf(p) ==
    /\ invocations[p].pc = "retrieve"
    /\ invocations' = [invocations EXCEPT
                         ![p].foreign = @ \/ db_writers # {p},
                         ![p].pc = "done"]
    /\ UNCHANGED <<shared, db_bak, db, db_writers>>

NextConcurrent ==
    \E p \in Invocations :
        \/ CollectOf(p)
        \/ CheckSnapshotOf(p)
        \/ ResetSnapshotOf(p)
        \/ BuildVanillaOf(p)
        \/ ReuseSnapshotOf(p)
        \/ CopySnapshotOf(p)
        \/ BuildModdedOf(p)
        \/ RunScriptOf(p)
        \/ RetrieveOf(p)

SpecConcurrent == InitConcurrent /\ [][NextConcurrent]_vars

\* C16. With invocations for the same game interleaved, none runs a script
\* on, or pulls tables from, a working store another has written in, and
\* none copies the snapshot while another is rebuilding it.
StoresAreNotShared ==
    \A p \in Invocations :
        ~invocations[p].foreign /\ ~invocations[p].mid_rebuild

\* ------------------------------------------------------------------------
\* The backfill of a modern title.
\* ------------------------------------------------------------------------
\* The rows of the tables of the installed game, in the order they are read.
InstalledRows == Flatten([i \in 1..Len(game.locs) |-> LocRows(game.locs[i], FromInstalled)])

\* The value the last of the installed rows of a key has.
LastObserved(key) ==
    InstalledRows[CHOOSE i \in 1..Len(InstalledRows) :
                    /\ InstalledRows[i].key = key
                    /\ \A j \in 1..Len(InstalledRows) : InstalledRows[j].key = key => j <= i].value

\* The keys the optimizer dropped.
LostKeys == obs.before_opt \ obs.after_opt

ModernReturned == TranslationsReturned /\ ~game.use_old_multilanguage_logic

\* C21. On a modern title every key the optimizer dropped that the installed
\* tables define is back with the last value the installed tables give it,
\* and the rows taken from the English reference are for keys the installed
\* tables do not have.
LostKeysRestoredFromInstalled ==
    ModernReturned =>
        /\ \A key \in LostKeys \cap Keys(InstalledRows) :
                \E p \in RowsFrom(FromInstalled) :
                    loc_data[p].key = key /\ loc_data[p].value = LastObserved(key)
        /\ \A p \in RowsFrom(FromEnglish) : loc_data[p].key \notin Keys(InstalledRows)

\* C22. A failure of the corpus refresh does not end the pass; any other
\* failure (an archive that cannot be read, a loc table in it that does not
\* decode, a translation set or a reference table that cannot be read) does:
\* a pass that returned Ok met no failure but that of the refresh.
OnlyRefreshFailuresAreSwallowed ==
    pc = "done" /\ cli.translation_language.some /\ result = "Ok" =>
        obs.swallowed \subseteq {"refresh"}

\* ------------------------------------------------------------------------
\* The movie archives of load_order_from_file.
\* ------------------------------------------------------------------------
\* A file name with the extension of an archive.
HasPackExtension(name) ==
    /\ Len(name) >= Len(StrDotPack)
    /\ SubSeq(name, Len(name) - Len(StrDotPack) + 1, Len(name)) = StrDotPack

\* The explicitly resolved mods, and the paths pushed after them.
ExplicitMods == ModPaths(string, working_paths, fs)
Appended == {mod_paths[i] : i \in (Len(ExplicitMods) + 1)..Len(mod_paths)}

\* C23. Of the files with the archive extension under a working directory,
\* those appended after the explicit mods are the ones that are no explicit
\* mod, no known archive of the game, and that open as movie archives.
MovieArchivesAppended ==
    LoadOrderReturned =>
        \A f \in fs :
            (/\ HasPackExtension(f.name)
             /\ \E w \in 1..Len(working_paths) : working_paths[w] = f.dir)
            => (PathJoin(f.dir, f.name) \in Appended
                    <=> /\ \A k \in 1..Len(ExplicitMods) : ExplicitMods[k] # PathJoin(f.dir, f.name)
                        /\ ~f.ca
                        /\ f.movie)

\* ------------------------------------------------------------------------
\* The tables the scripts declare as created.
\* ------------------------------------------------------------------------
\* The tables collected from the archives: the list without the tables
\* pushed at lines 396-415.
CollectedCount == Len(tables) - obs.created
Registered(path) == {i \in (CollectedCount + 1)..Len(tables) : tables[i].file.path = path}

\* C24. When the created tables have been registered: for a declared pair
\* whose path no collected table has and whose table name some decoded
\* table has, one table without rows, of that table name, is in the list at
\* the declared path; for a pair whose path a collected table has, none is;
\* a pair two scripts declare is registered once.
CreatedTablesRegisteredOnce ==
    pc = "retrieve" /\ idx = 1 =>
        \A k \in 1..Len(new_tables) :
            LET new == new_tables[k]
                present == \E i \in 1..CollectedCount : tables[i].file.path = new.path
                known == \E i \in 1..CollectedCount :
                            /\ tables[i].file.decoded
                            /\ tables[i].file.table_name = new.table_name
            IN IF present THEN Registered(new.path) = {}
               ELSE known =>
                    /\ Cardinality(Registered(new.path)) = 1
                    /\ \A i \in Registered(new.path) :
                        /\ tables[i].file.rows = {}
                        /\ tables[i].file.table_name = new.table_name

\* ------------------------------------------------------------------------
\* The order of the loops of prepare_sql_queries.
\* ------------------------------------------------------------------------
\* C25. The list the loops over the tables go through (snapshot build,
\* working store, re-extraction, the tables registered for the created
\* declarations included) is in ascending order of path, and the scripts
\* are run in the order of the command line.
TablesIteratedInPathOrder ==
    /\ \A i, j \in 1..Len(tables) :
            i < j => ~StrLess(tables[j].file.path, tables[i].file.path)
    /\ \A k \in 1..Len(obs.attempts) : obs.attempts[k].i = k

\* ------------------------------------------------------------------------
\* The low-priority marker.
\* ------------------------------------------------------------------------
\* new is old with the marker in front of its last component.
IsMarked(new, old) ==
    LET n == Split(new, ChSlash)
        o == Split(old, ChSlash)
    IN /\ Len(n) = Len(o)
       /\ \A i \in 1..Len(o) :
            n[i] = IF i = Len(o) THEN <<ChTilde>> \o o[i] ELSE o[i]

BaseEntries == {i \in 1..Len(tables) : tables[i].is_vanilla}
OtherEntries == {i \in 1..Len(tables) : ~tables[i].is_vanilla}

\* C26. In the sorted list of collected tables every base table has its
\* path with the marker in front of the last component, every table of the
\* mods and of the override archive has its own path, and a base table has
\* not the path of a mod or override table that has its original path.
BaseTablesMarked ==
    pc = "check" =>
        /\ Cardinality(BaseEntries) = Cardinality(vanilla_pack)
        /\ \A f \in vanilla_pack :
            \E i \in BaseEntries :
                /\ IsMarked(tables[i].file.path, f.path)
                /\ [tables[i].file EXCEPT !.path = f.path] = f
        /\ \A i \in OtherEntries : tables[i].file \in modded_pack \cup reserved_pack
        /\ \A g \in modded_pack \cup reserved_pack :
            \E i \in OtherEntries : tables[i].file = g
        /\ \A i \in BaseEntries, j \in OtherEntries :
            IsMarked(tables[i].file.path, tables[j].file.path)
                => tables[i].file.path # tables[j].file.path
        /\ \A i, j \in 1..Len(tables) :
            i < j => ~StrLess(tables[j].file.path, tables[i].file.path)

\* The tables are collected, a base table and an override table having the
\* same original path.
BaseAndOverrideSamePath ==
    /\ pc = "check"
    /\ \E i \in BaseEntries, j \in OtherEntries :
        IsMarked(tables[i].file.path, tables[j].file.path)

\* ------------------------------------------------------------------------
\* The snapshot and the working store.
\* ------------------------------------------------------------------------
\* The rows db_to_sql stores for a base table, renamed as at line 247.
BaseRows(base) ==
    UNION {{[tbl |-> f.table_name, pack |-> f.container,
             file |-> FileName(LowPriorityPath(f.path)), val |-> v] : v \in f.rows} :
           f \in base}

\* Every row of the snapshot is a row of a base table, of this version of
\* the game or of the one the snapshot on disk was built from.
SnapshotRowsAreBaseRows ==
    /\ db_bak.store.rows \subseteq BaseRows(vanilla_pack \cup OldVanillaFiles)
    /\ db_bak.store.tables \subseteq {f.table_name : f \in vanilla_pack \cup OldVanillaFiles}

\* C27. In every state the snapshot holds tables of the base game only; the
\* steps that project the tables of the mods and of the override archive,
\* and those that run the scripts, write in the working store and leave the
\* snapshot as it is.
SnapshotHoldsBaseTablesOnly ==
    /\ []SnapshotRowsAreBaseRows
    /\ [][(pc \in {"copy", "build_modded", "scripts", "new_tables", "retrieve", "finish"})
            => (db_bak' = db_bak)]_vars

\* The working store holds rows of a mod and rows a script wrote, next to a
\* snapshot that is not empty.
WorkingStoreWritten ==
    /\ db_bak.store.rows # {}
    /\ \E r \in db.store.rows : r.pack = ModName
    /\ \E r \in db.store.rows : r.pack = ReservedName
    /\ pc = "finish"

\* ------------------------------------------------------------------------
\* A batch that fails.
\* ------------------------------------------------------------------------
\* The attempts whose batch failed to execute.
FailedBatches == {k \in 1..Len(obs.attempts) : obs.attempts[k].outcome = "exec_err"}

\* C28. The prefixes a script declares are recorded when its batch fails to
\* execute; and when the pass has run to its end after such a failure, every
\* decoded table under these prefixes is in the override archive with the
\* rows the working store has, those the failed batch changed included,
\* and the pass returns an error.
FailedBatchStillExtracted ==
    \A k \in FailedBatches :
        LET prefixes == EditedOf(ScriptList[k].script)
        IN /\ \A j \in 1..Len(prefixes) :
                \E e \in 1..Len(edited_tables) : edited_tables[e] = prefixes[j]
           /\ RanToEnd =>
                /\ result = "Err"
                /\ \A i \in 1..Len(tables) :
                    (/\ tables[i].file.decoded
                     /\ \E j \in 1..Len(prefixes) : StartsWith(tables[i].file.path, prefixes[j]))
                        => \E f \in reserved_pack :
                            /\ f.path = tables[i].file.path
                            /\ f.rows = SqlToDb(db.store, f.table_name,
                                                ContainerName(f), FileName(f.path))

\* A batch failed after its first statement had changed the rows of a base
\* table, and the changed rows are in the override archive.
PartialMutationExtracted ==
    /\ RanToEnd
    /\ result = "Err"
    /\ FailedBatches # {}
    /\ \E f \in reserved_pack : \E g \in vanilla_pack :
        /\ f.path = LowPriorityPath(g.path)
        /\ f.rows # g.rows
        /\ f.rows # {}

\* ------------------------------------------------------------------------
\* main: the two saves of the override archive around prepare_launch_options.
\* ------------------------------------------------------------------------
\* The passes of prepare_launch_options before prepare_sql_queries, in the
\* order of its calls.
EarlierPasses ==
    <<"skip_intro_videos", "script_logging", "trait_limit_removal", "siege_attacker_removal",
      "translations", "unit_multiplier", "universal_rebalancer", "dev_ui">>

\* What main and the earlier passes leave alone.
untouched == <<resolver, translation, concurrent, inputs, disk, locals, runs, pc, result,
               files, obs, past>>

\* main after the archives and the schema are loaded: the override archive
\* is new and empty, nothing is saved yet.
InitMain ==
    /\ LaunchWith({"none"},
                  {<<>>,
                   <<[script |-> ScriptCreate, params |-> <<>>]>>,
                   <<[script |-> ScriptPartial, params |-> <<>>]>>,
                   <<[script |-> ScriptBroken, params |-> <<>>],
                     [script |-> ScriptUpdate, params |-> <<>>]>>},
                  {{}}, ExeStates, {NoFile, OldSnapshot})
    /\ IdleConcurrent
    /\ main_pc = "init"
    /\ pass = 0
    /\ saved_pack = {}
    /\ saves = <<>>

\* save_reserved_pack: Pack::save writes the archive at its path, or fails.
SavePack(next) ==
    \E io_ok \in BOOLEAN :
        IF io_ok
        THEN /\ saved_pack' = reserved_pack
             /\ saves' = Append(saves, reserved_pack)
             /\ main_pc' = next
        ELSE /\ main_pc' = "error"
             /\ UNCHANGED <<saved_pack, saves>>

\* main, line 184: the first save.
SaveEmpty ==
    /\ main_pc = "init"
    /\ SavePack("passes")
    /\ pass' = IF main_pc' = "passes" THEN 1 ELSE 0
    /\ UNCHANGED <<untouched, reserved_pack>>

\* prepare_launch_options, lines 143-164: one of the passes before the sql
\* one. It returns Ok or Err; the unit multiplier may have put a table
\* cloned from the base game in the override archive by then. An Err goes
\* up to main through the `?`.
RunEarlierPass ==
    /\ main_pc = "passes"
    /\ \E ok \in BOOLEAN, inserted \in BOOLEAN :
        /\ inserted => EarlierPasses[pass] = "unit_multiplier"
        /\ reserved_pack' = IF inserted THEN reserved_pack \cup ReservedFiles ELSE reserved_pack
        /\ IF ok
           THEN /\ pass' = pass + 1
                /\ main_pc' = IF pass = Len(EarlierPasses) THEN "sql" ELSE "passes"
           ELSE /\ main_pc' = "error"
                /\ UNCHANGED pass
    /\ UNCHANGED <<untouched, saved_pack, saves>>

\* prepare_launch_options, line 167: the steps of prepare_sql_queries.
RunSqlPass ==
    /\ main_pc = "sql"
    /\ NextSql

\* main, lines 187-191: prepare_launch_options returned Ok, the second save.
SaveFinal ==
    /\ main_pc = "sql"
    /\ pc = "done"
    /\ result = "Ok"
    /\ SavePack("exit0")
    /\ UNCHANGED <<untouched, reserved_pack, pass>>

\* ErrorPath, were error_path to return to its caller after the log.
ErrorPathReturns ==
    /\ \/ main_pc = "error"
       \/ main_pc = "sql" /\ pc = "done" /\ result = "Err"
    /\ saved_pack' = reserved_pack
    /\ saves' = Append(saves, reserved_pack)
    /\ main_pc' = "exit0"
    /\ UNCHANGED <<untouched, reserved_pack, pass>>

\* main, lines 198-205: error_path logs the error and ends the process
\* with exit(1).
ErrorPath ==
    /\ \/ main_pc = "error"
       \/ main_pc = "sql" /\ pc = "done" /\ result = "Err"
    /\ main_pc' = "exit1"
    /\ UNCHANGED <<untouched, reserved_pack, pass, saved_pack, saves>>

NextMain ==
    \/ SaveEmpty
    \/ RunEarlierPass
    \/ RunSqlPass
    \/ SaveFinal
    \/ ErrorPath

SpecMain == InitMain /\ [][NextMain]_vars

\* Some pass has run.
PassesStarted == main_pc \in {"passes", "sql", "exit0"} \/ pass > 0

\* C29. The archive is saved once, empty, before any pass runs, and once
\* more only when every pass returned Ok: at most two saves are made, the
\* first of the empty archive, no pass runs before it, and after an error
\* of any pass, that of the sql pass at its end included, the process ends
\* with one save made and the empty archive on disk.
SavedEmptyThenOnlyOnSuccess ==
    /\ Len(saves) <= 2
    /\ Len(saves) >= 1 => saves[1] = {}
    /\ PassesStarted => Len(saves) >= 1
    /\ main_pc \in {"passes", "sql", "error"} => Len(saves) <= 1
    /\ Len(saves) = 2 =>
        /\ main_pc = "exit0"
        /\ pass = Len(EarlierPasses) + 1
        /\ pc = "done" /\ result = "Ok"
        /\ saved_pack = reserved_pack
    /\ main_pc = "exit1" =>
        /\ Len(saves) <= 1
        /\ saved_pack = {}

\* The sql pass failed at its end after it had put tables in the override
\* archive, and the process ended with the empty archive on disk.
FailedAtEndLeftEmptyArchive ==
    /\ main_pc = "exit1"
    /\ pc = "done" /\ obs.exit = "finish" /\ result = "Err"
    /\ reserved_pack # {}
    /\ Len(saves) = 1
    /\ saved_pack = {}

\* ------------------------------------------------------------------------
\* A snapshot built with failures.
\* ------------------------------------------------------------------------
\* The snapshot file was written by the launch that runs.
WrittenThisLaunch == db_bak.exists /\ db_bak.modified = clock

\* The base tables whose rows a store does not all have.
MissingFrom(store) ==
    {f \in vanilla_pack : ~(BaseRows({f}) \subseteq store.rows)}

\* C30. A launch that rebuilt the snapshot and wrote the file, the clearing
\* or the projection of a base table having failed or not, leaves a file
\* the test of line 280 takes as valid as long as the executable is the
\* same; and a launch that finds the snapshot valid copies it as it is, so
\* the base tables the snapshot lacks are missing from the working store.
FailedRebuildStaysValid ==
    /\ (pc = "done" /\ obs.decision = "rebuild" /\ WrittenThisLaunch)
        => ~NeedsRebuild(db_bak, exe)
    /\ (obs.decision = "reuse" /\ pc \in {"build_modded", "scripts", "new_tables",
                                          "retrieve", "finish"})
        => /\ ~NeedsRebuild(obs.snap0, exe)
           /\ db_bak = obs.snap0
           /\ obs.copied = obs.snap0.store
           /\ MissingFrom(obs.copied) = MissingFrom(obs.snap0.store)

\* The first launch built the snapshot without a base table that does not
\* project, and the second launch took the snapshot as valid and copied it
\* without the table.
SecondLaunchCopiedStaleSnapshot ==
    /\ runs = 2
    /\ past.rebuilt # <<>>
    /\ obs.decision = "reuse"
    /\ pc = "build_modded"
    /\ \E f \in MissingFrom(obs.copied) : ~f.projectable

====
